---- MODULE Spec2Model ----
(***************************************************************************)
(* Column-chunk writer of the Parquet C++ library: ColumnWriterImpl /      *)
(* TypedColumnWriterImpl driving a PageWriter (SerializedPageWriter or     *)
(* BufferedPageWriter) and the ColumnChunkMetaDataBuilder.                 *)
(*                                                                         *)
(* One ColumnWriter is modelled together with its PageWriter, the sink(s)  *)
(* the pages go to and the chunk metadata.  Sizes are in bytes.            *)
(***************************************************************************)
EXTENDS Integers, Sequences, FiniteSets, TLC

VARIABLES
  props,   \* WriterProperties / ColumnDescriptor / PageWriter variant, fixed at construction
  cw,      \* ColumnWriterImpl fields (with the current value encoder)
  pw,      \* SerializedPageWriter fields
  out,     \* SerializedPageWriter::sink_ (the file sink, or the in-memory sink when buffered)
  fin,     \* BufferedPageWriter::final_sink_ (unused by the streaming variant)
  md,      \* format::ColumnChunk filled by ColumnChunkMetaDataBuilder
  h,       \* observation of the calls made so far (not program state)
  file,    \* the bytes of a Parquet file: footer region, footer length, magic
  rd,      \* SerializedFile: reader properties, file_metadata_, file_decryptor_
  rg,      \* the column writers of one row group and the sink they share
  mb,      \* RowGroupMetaDataBuilder / FileMetaDataBuilder and what they built
  st,      \* statistics on their way from the writer through Thrift to the reader
  ep       \* a SerializedPageWriter with encryptors and the modules it encrypted

vars == <<props, cw, pw, out, fin, md, h, file, rd, rg, mb, st, ep>>

----------------------------------------------------------------------------
(* Bounds of the model *)

\* total number of levels submitted over all WriteBatch/WriteBatchSpaced calls
MaxLevels == 3
\* number of levels of one WriteBatch/WriteBatchSpaced call
MaxBatch == 3
\* number of Close calls
MaxCloseCalls == 2
\* total number of levels submitted after Close
MaxLevelsAfterClose == 1
\* number of levels submitted to one column writer of a row group
MaxRowGroupLevels == 3
\* number of AppendRowGroup calls on a FileMetaDataBuilder
MaxRowGroups == 2
\* number of metadata builder calls that throw
MaxFailedCalls == 2
\* number of row groups a FileMetaData holds before push_back runs out of memory
MaxVectorSize == 5

----------------------------------------------------------------------------
(* Inputs *)

\* the values a caller submits
Values == {1, 2}

\* (max_definition_level, max_repetition_level, schema_node()->is_optional())
\* of a required leaf, an optional leaf and a repeated leaf
Descrs ==
  { [D |-> 0, R |-> 0, optional |-> FALSE],
    [D |-> 1, R |-> 0, optional |-> TRUE],
    [D |-> 1, R |-> 1, optional |-> FALSE] }

DataPageSizes == {2, 3}
DictionaryPageSizeLimits == {1, 2}
WriteBatchSizes == {1, 2}

\* position of the file sink when the chunk starts: the 4-byte magic precedes
\* the first row group
MagicLen == 4

----------------------------------------------------------------------------
(* Collaborators outside column_writer.cc: encoders, codec, Thrift *)

\* bytes of one PLAIN-encoded value
PlainValueBytes == 1
\* bytes in front of the RLE-encoded dictionary indices (the bit width)
DictIndexHeaderBytes == 1
\* sizeof(int32_t): the length prefix of an RLE level block
LevelLengthPrefix == 4
\* serialized format::ColumnChunk
ColumnChunkBytes == 3
\* sizeof(format::PageHeader)
SizeofPageHeader == 5

\* Encoder::EstimatedDataEncodedSize
EstimatedDataEncodedSize(enc) ==
  IF enc.kind = "PLAIN" THEN PlainValueBytes * Len(enc.buffered)
  ELSE DictIndexHeaderBytes + Len(enc.buffered)

\* DictEncoder::dict_encoded_size
dict_encoded_size(enc) == PlainValueBytes * Len(enc.dict)

\* DictEncoder::num_entries
num_entries(enc) == Len(enc.dict)

RECURSIVE PutAll(_, _)
\* Encoder::Put(values, n): a dictionary encoder adds the values it has not seen
PutAll(enc, vs) ==
  IF vs = <<>> THEN enc
  ELSE LET v == Head(vs)
           seen == \E i \in 1..Len(enc.dict) : enc.dict[i] = v
           e1 == [enc EXCEPT !.buffered = Append(@, v),
                             !.dict = IF enc.kind = "PLAIN" \/ seen THEN @ ELSE Append(@, v)]
       IN PutAll(e1, Tail(vs))

\* Encoder::FlushValues: size of the returned buffer
FlushedSize(enc) ==
  IF enc.kind = "PLAIN" THEN PlainValueBytes * Len(enc.buffered)
  ELSE DictIndexHeaderBytes + Len(enc.buffered)

\* MakeEncoder
MakeEncoder(kind) == [kind |-> kind, buffered |-> <<>>, dict |-> <<>>]

\* RleEncoder output for n levels
RleLen(n) == 1 + (n + 7) \div 8

\* Codec::Compress: size of the compressed buffer
CompressedLen(n) == (n + 1) \div 2

\* ThriftSerializer::Serialize of a format::PageHeader: the compact protocol
\* writes num_values as a varint, longer for larger values
SerializedHeaderSize(num_values) == IF num_values >= 2 THEN 3 ELSE 2

----------------------------------------------------------------------------
(* The operations are functions of the whole state s = [cw, pw, out, fin,  *)
(* md, h, ret]; s.ret is the value the last call returned.                 *)

\* an entry of a sink: one page (header + payload) or the chunk's ColumnChunk
SinkItem(type, offset, header_size, compressed, uncompressed, nvalues, encoding, seq) ==
  [type |-> type, offset |-> offset, header_size |-> header_size,
   compressed_page_size |-> compressed, uncompressed_page_size |-> uncompressed,
   num_values |-> nvalues, encoding |-> encoding, seq |-> seq]

\* OutputStream::Write of one item of n bytes at the sink's position
SinkWrite(sink, item, n) ==
  [sink EXCEPT !.pos = @ + n, !.items = Append(@, item), !.writes = @ + 1]

\* SerializedPageWriter::Compress / has_compressor
has_compressor == props.codec

\* SerializedPageWriter::WriteDictionaryPage
SerializedPageWriter_WriteDictionaryPage(s, page) ==
  LET uncompressed_size == page.size
      output_data_len == IF has_compressor THEN CompressedLen(uncompressed_size)
                         ELSE uncompressed_size
      start_pos == s.out.pos
      header_size == SerializedHeaderSize(page.num_values)
      item == SinkItem("DICTIONARY_PAGE", start_pos, header_size, output_data_len,
                       uncompressed_size, page.num_values, page.encoding, 0)
      sink1 == SinkWrite(s.out, item, header_size + output_data_len)
  IN [s EXCEPT
        !.pw.dictionary_page_offset = IF @ = 0 THEN start_pos ELSE @,
        !.out = sink1,
        !.pw.total_uncompressed_size = @ + uncompressed_size + header_size,
        !.pw.total_compressed_size = @ + output_data_len + header_size,
        !.h.dictionary_page_calls = @ + 1,
        !.ret = sink1.pos - start_pos]

\* a mutant of SerializedPageWriter::WriteDataPage: the totals leave out the page header
SerializedPageWriter_WriteDataPage_NoHeader(s, page) ==
  LET uncompressed_size == page.uncompressed_size
      output_data_len == page.size
      start_pos == s.out.pos
      header_size == SerializedHeaderSize(page.num_values)
      item == SinkItem("DATA_PAGE", start_pos, header_size, output_data_len,
                       uncompressed_size, page.num_values, page.encoding, page.seq)
      sink1 == SinkWrite(s.out, item, header_size + output_data_len)
  IN [s EXCEPT
        !.pw.data_page_offset = IF @ = 0 THEN start_pos ELSE @,
        !.out = sink1,
        !.pw.total_uncompressed_size = @ + uncompressed_size,
        !.pw.total_compressed_size = @ + output_data_len,
        !.pw.num_values = @ + page.num_values,
        !.pw.page_ordinal = @ + 1,
        !.ret = sink1.pos - start_pos]

\* SerializedPageWriter::WriteDataPage
SerializedPageWriter_WriteDataPage(s, page) ==
  LET uncompressed_size == page.uncompressed_size
      output_data_len == page.size
      start_pos == s.out.pos
      header_size == SerializedHeaderSize(page.num_values)
      item == SinkItem("DATA_PAGE", start_pos, header_size, output_data_len,
                       uncompressed_size, page.num_values, page.encoding, page.seq)
      sink1 == SinkWrite(s.out, item, header_size + output_data_len)
  IN [s EXCEPT
        !.pw.data_page_offset = IF @ = 0 THEN start_pos ELSE @,
        !.out = sink1,
        !.pw.total_uncompressed_size = @ + uncompressed_size + header_size,
        !.pw.total_compressed_size = @ + output_data_len + header_size,
        !.pw.num_values = @ + page.num_values,
        !.pw.page_ordinal = @ + 1,
        !.ret = sink1.pos - start_pos]

\* ColumnChunkMetaDataBuilderImpl::Finish (offsets, totals and encodings)
Finish(s, num_values, dictionary_page_offset, data_page_offset, compressed_size, uncompressed_size, has_dictionary, dictionary_fallback) ==
  LET thrift_encodings ==
        (IF has_dictionary THEN <<props.dictionary_index_encoding, "PLAIN">>
         ELSE <<props.encoding>>)
        \o <<"RLE">>
        \o (IF dictionary_fallback THEN <<"PLAIN">> ELSE <<>>)
  IN [s EXCEPT
        !.md.isset_dictionary_page_offset = (dictionary_page_offset > 0),
        !.md.dictionary_page_offset = IF dictionary_page_offset > 0
                                      THEN dictionary_page_offset ELSE @,
        !.md.file_offset = IF dictionary_page_offset > 0
                           THEN dictionary_page_offset + compressed_size
                           ELSE data_page_offset + compressed_size,
        !.md.isset_meta_data = TRUE,
        !.md.num_values = num_values,
        !.md.data_page_offset = data_page_offset,
        !.md.total_uncompressed_size = uncompressed_size,
        !.md.total_compressed_size = compressed_size,
        !.md.encodings = thrift_encodings,
        !.md.finish_calls = @ + 1]

\* ColumnChunkMetaDataBuilderImpl::WriteTo: the ColumnChunk goes to the sink
MetaItem(offset) == SinkItem("COLUMN_CHUNK", offset, 0, ColumnChunkBytes, ColumnChunkBytes, 0, "NONE", 0)

\* SerializedPageWriter::Close
SerializedPageWriter_Close(s, has_dictionary, fallback) ==
  LET s1 == Finish(s, s.pw.num_values, s.pw.dictionary_page_offset, s.pw.data_page_offset,
                   s.pw.total_compressed_size, s.pw.total_uncompressed_size,
                   has_dictionary, fallback)
  IN [s1 EXCEPT !.out = SinkWrite(s1.out, MetaItem(s1.out.pos), ColumnChunkBytes),
                !.h.pager_close_calls = @ + 1]

\* the content of the in-memory sink as it lands in the final sink
Rebase(items, base) ==
  [i \in 1..Len(items) |-> [items[i] EXCEPT !.offset = @ + base]]

\* a mutant of BufferedPageWriter::Close: the ColumnChunk goes to the final
\* sink in a write of its own, after the buffered pages
BufferedPageWriter_Close_TwoWrites(s, has_dictionary, fallback) ==
  LET final_position == s.fin.pos
      s1 == Finish(s, s.pw.num_values, s.pw.dictionary_page_offset + final_position,
                   s.pw.data_page_offset + final_position,
                   s.pw.total_compressed_size, s.pw.total_uncompressed_size,
                   has_dictionary, fallback)
  IN [s1 EXCEPT !.out = [s1.out EXCEPT !.finished = TRUE],
                !.fin = [pos |-> final_position + s1.out.pos + ColumnChunkBytes,
                         items |-> Append(s1.fin.items \o Rebase(s1.out.items, final_position),
                                          MetaItem(final_position + s1.out.pos)),
                         writes |-> s1.fin.writes + 2,
                         finished |-> FALSE],
                !.h.pager_close_calls = @ + 1]

\* BufferedPageWriter::Close
BufferedPageWriter_Close(s, has_dictionary, fallback) ==
  LET final_position == s.fin.pos
      s1 == Finish(s, s.pw.num_values, s.pw.dictionary_page_offset + final_position,
                   s.pw.data_page_offset + final_position,
                   s.pw.total_compressed_size, s.pw.total_uncompressed_size,
                   has_dictionary, fallback)
      mem == SinkWrite(s1.out, MetaItem(s1.out.pos), ColumnChunkBytes)
  IN [s1 EXCEPT !.out = [mem EXCEPT !.finished = TRUE],
                !.fin = [pos |-> final_position + mem.pos,
                         items |-> s1.fin.items \o Rebase(mem.items, final_position),
                         writes |-> s1.fin.writes + 1,
                         finished |-> FALSE],
                !.h.pager_close_calls = @ + 1]

\* PageWriter::WriteDictionaryPage (BufferedPageWriter forwards to its pager_)
PageWriter_WriteDictionaryPage(s, page) == SerializedPageWriter_WriteDictionaryPage(s, page)

\* PageWriter::WriteDataPage (BufferedPageWriter forwards to its pager_)
PageWriter_WriteDataPage(s, page) == SerializedPageWriter_WriteDataPage(s, page)

\* PageWriter::Close
PageWriter_Close(s, has_dictionary, fallback) ==
  IF props.buffered THEN BufferedPageWriter_Close(s, has_dictionary, fallback)
  ELSE SerializedPageWriter_Close(s, has_dictionary, fallback)

----------------------------------------------------------------------------
(* ColumnWriterImpl / TypedColumnWriterImpl *)

\* descr_->max_definition_level(), max_repetition_level()
max_definition_level == props.descr.D
max_repetition_level == props.descr.R

\* ColumnWriterImpl::RleEncodeLevels: the encoded size, with the length prefix
RleEncodeLevels(num_buffered_values) == RleLen(num_buffered_values) + LevelLengthPrefix

\* TypedStatistics::Update / UpdateSpaced on the page statistics
UpdateStatistics(stats, num_not_null, num_null) ==
  [stats EXCEPT !.num_values = @ + num_not_null, !.null_count = @ + num_null]

EmptyStatistics == [num_values |-> 0, null_count |-> 0]

\* TypedColumnWriterImpl::ResetPageStatistics
ResetPageStatistics(s) ==
  IF props.statistics_enabled
  THEN [s EXCEPT !.cw.chunk_statistics =
                     UpdateStatistics(@, s.cw.page_statistics.num_values,
                                      s.cw.page_statistics.null_count),
                 !.cw.page_statistics = EmptyStatistics]
  ELSE s

\* a mutant of the count of the bytes written: the payload without the header
AddBytesWritten_NoHeader(s) == [s EXCEPT !.cw.total_bytes_written = @ + s.ret - SerializedHeaderSize(1)]

\* total_bytes_written_ += the bytes the pager reported for the page
AddBytesWritten(s) == [s EXCEPT !.cw.total_bytes_written = @ + s.ret]

\* ColumnWriterImpl::WriteDataPage
WriteDataPage(s, page) == AddBytesWritten(PageWriter_WriteDataPage(s, page))

\* ColumnWriterImpl::AddDataPage
AddDataPage(s) ==
  LET values_size == FlushedSize(s.cw.current_encoder)
      definition_levels_rle_size ==
        IF max_definition_level > 0 THEN RleEncodeLevels(s.cw.num_buffered_values) ELSE 0
      repetition_levels_rle_size ==
        IF max_repetition_level > 0 THEN RleEncodeLevels(s.cw.num_buffered_values) ELSE 0
      uncompressed_size ==
        definition_levels_rle_size + repetition_levels_rle_size + values_size
      s1 == ResetPageStatistics([s EXCEPT !.cw.current_encoder.buffered = <<>>])
      compressed_size == IF has_compressor THEN CompressedLen(uncompressed_size)
                         ELSE uncompressed_size
      page == [size |-> compressed_size, num_values |-> s.cw.num_buffered_values,
               encoding |-> s.cw.encoding, uncompressed_size |-> uncompressed_size,
               seq |-> s.h.pages_assembled + 1,
               statistics |-> s.cw.page_statistics]
      s2 == [s1 EXCEPT !.h.pages_assembled = @ + 1]
      s3 == IF s.cw.has_dictionary /\ ~s.cw.fallback
            THEN [s2 EXCEPT !.cw.total_compressed_bytes = @ + page.size + SizeofPageHeader,
                            !.cw.data_pages = Append(@, page)]
            ELSE WriteDataPage(s2, page)
  IN [s3 EXCEPT !.cw.definition_levels_sink = <<>>,
                !.cw.repetition_levels_sink = <<>>,
                !.cw.num_buffered_values = 0,
                !.cw.num_buffered_encoded_values = 0]

RECURSIVE WriteDataPages(_, _)
\* the loop of FlushBufferedDataPages over data_pages_
WriteDataPages(s, pages) ==
  IF pages = <<>> THEN s
  ELSE WriteDataPages(WriteDataPage(s, Head(pages)), Tail(pages))

\* the pages in reverse order
Reverse(pages) == [i \in 1..Len(pages) |-> pages[Len(pages) + 1 - i]]

\* FlushBufferedDataPages: the outstanding values become a page
AddOutstandingDataPage(s) == IF s.cw.num_buffered_values > 0 THEN AddDataPage(s) ELSE s

\* FlushBufferedDataPages: data_pages_.clear(), total_compressed_bytes_ = 0
ClearDataPages(s) == [s EXCEPT !.cw.data_pages = <<>>, !.cw.total_compressed_bytes = 0]

\* FlushBufferedDataPages: the buffered pages in reverse order
WriteBufferedDataPages_Reversed(s) == WriteDataPages(s, Reverse(s.cw.data_pages))

\* FlushBufferedDataPages: the buffered pages go to the pager front to back
WriteBufferedDataPages(s) == WriteDataPages(s, s.cw.data_pages)

\* a mutant of ColumnWriterImpl::FlushBufferedDataPages: the page of the
\* outstanding values is written before the pages buffered earlier
FlushBufferedDataPages_Reversed(s) ==
  ClearDataPages(WriteBufferedDataPages_Reversed(AddOutstandingDataPage(s)))

\* ColumnWriterImpl::FlushBufferedDataPages
FlushBufferedDataPages(s) ==
  ClearDataPages(WriteBufferedDataPages(AddOutstandingDataPage(s)))

\* TypedColumnWriterImpl::WriteDictionaryPage
WriteDictionaryPage(s) ==
  LET page == [size |-> dict_encoded_size(s.cw.current_encoder),
               num_values |-> num_entries(s.cw.current_encoder),
               encoding |-> props.dictionary_page_encoding]
  IN AddBytesWritten(PageWriter_WriteDictionaryPage(s, page))

\* a mutant of FallbackToPlainEncoding: fallback_ is not set
FallbackToPlainEncoding_NoFallbackFlag(s) ==
  [s EXCEPT !.cw.current_encoder = MakeEncoder("PLAIN"),
            !.cw.encoding = "PLAIN",
            !.h.fallback_calls = @ + 1,
            !.h.fallback_levels = s.h.levels_processed]

\* CheckDictionarySizeLimit: fallback_ = true, the PLAIN encoder replaces the
\* dictionary encoder, encoding_ = PLAIN
FallbackToPlainEncoding(s) ==
  [s EXCEPT !.cw.fallback = TRUE,
            !.cw.current_encoder = MakeEncoder("PLAIN"),
            !.cw.encoding = "PLAIN",
            !.h.fallback_calls = @ + 1,
            !.h.fallback_levels = s.h.levels_processed]

\* TypedColumnWriterImpl::CheckDictionarySizeLimit
CheckDictionarySizeLimit(s) ==
  IF dict_encoded_size(s.cw.current_encoder) >= props.dictionary_pagesize_limit
  THEN FallbackToPlainEncoding(FlushBufferedDataPages(WriteDictionaryPage(s)))
  ELSE s

----------------------------------------------------------------------------
(* Mini-batches *)

\* the array a pointer p + off designates
PtrAt(array, off) == SubSeq(array, off + 1, Len(array))

\* number of the first n entries of levels equal to level
CountEq(levels, n, level) == Cardinality({i \in 1..n : levels[i] = level})

\* number of the first n entries of levels that are at least level
CountGe(levels, n, level) == Cardinality({i \in 1..n : levels[i] >= level})

\* TypedColumnWriterImpl::WriteValues: Encoder::Put of the first num_values values
WriteValues(s, num_values, values) ==
  [s EXCEPT !.cw.current_encoder = PutAll(@, SubSeq(values, 1, num_values)),
            !.h.encoded = @ \o SubSeq(values, 1, num_values)]

RECURSIVE Compact(_, _, _, _)
\* the values of a spaced array whose validity bit is set, in order
Compact(values, num_values, valid_bits, valid_bits_offset) ==
  IF num_values = 0 THEN <<>>
  ELSE Compact(values, num_values - 1, valid_bits, valid_bits_offset)
       \o (IF valid_bits[valid_bits_offset + num_values] THEN <<values[num_values]>> ELSE <<>>)

\* TypedColumnWriterImpl::WriteValuesSpaced: Encoder::PutSpaced
WriteValuesSpaced(s, num_values, valid_bits, valid_bits_offset, values) ==
  LET put == Compact(values, num_values, valid_bits, valid_bits_offset)
  IN [s EXCEPT !.cw.current_encoder = PutAll(@, put),
               !.h.encoded = @ \o put]

\* a mutant of the page-size check: a page is cut only above the threshold
CheckDataPageLimit_Above(s) ==
  IF EstimatedDataEncodedSize(s.cw.current_encoder) > props.data_pagesize
  THEN AddDataPage(s) ELSE s

\* WriteMiniBatch: a data page is assembled once the encoder's estimate reaches
\* data_pagesize
CheckDataPageLimit(s) ==
  IF EstimatedDataEncodedSize(s.cw.current_encoder) >= props.data_pagesize
  THEN AddDataPage(s) ELSE s

\* WriteMiniBatch: the dictionary size is checked while the dictionary is open
CheckDictionaryLimit(s) ==
  IF s.cw.has_dictionary /\ ~s.cw.fallback THEN CheckDictionarySizeLimit(s) ELSE s

\* the tail of WriteMiniBatch and WriteMiniBatchSpaced: the page-size check,
\* then the dictionary-size check
CheckPageLimits(s) == CheckDictionaryLimit(CheckDataPageLimit(s))

\* a mutant of TypedColumnWriterImpl::WriteMiniBatch: every level counts as a row
WriteMiniBatch_RowPerLevel(s, num_values, def_levels, rep_levels, values) ==
  LET values_to_write ==
        IF max_definition_level > 0
        THEN CountEq(def_levels, num_values, max_definition_level)
        ELSE num_values
      s1 == [s EXCEPT
               !.cw.definition_levels_sink =
                   IF max_definition_level > 0
                   THEN @ \o SubSeq(def_levels, 1, num_values) ELSE @,
               !.cw.repetition_levels_sink =
                   IF max_repetition_level > 0
                   THEN @ \o SubSeq(rep_levels, 1, num_values) ELSE @,
               !.cw.rows_written = @ + num_values]
      s2 == WriteValues(s1, values_to_write, values)
      s3 == [s2 EXCEPT
               !.cw.page_statistics =
                   IF props.statistics_enabled
                   THEN UpdateStatistics(@, values_to_write, num_values - values_to_write)
                   ELSE @,
               !.cw.num_buffered_values = @ + num_values,
               !.cw.num_buffered_encoded_values = @ + values_to_write,
               !.h.levels_processed = @ + num_values]
  IN [CheckPageLimits(s3) EXCEPT !.ret = values_to_write]

\* TypedColumnWriterImpl::WriteMiniBatch
WriteMiniBatch(s, num_values, def_levels, rep_levels, values) ==
  LET values_to_write ==
        IF max_definition_level > 0
        THEN CountEq(def_levels, num_values, max_definition_level)
        ELSE num_values
      s1 == [s EXCEPT
               !.cw.definition_levels_sink =
                   IF max_definition_level > 0
                   THEN @ \o SubSeq(def_levels, 1, num_values) ELSE @,
               !.cw.repetition_levels_sink =
                   IF max_repetition_level > 0
                   THEN @ \o SubSeq(rep_levels, 1, num_values) ELSE @,
               !.cw.rows_written =
                   IF max_repetition_level > 0
                   THEN @ + CountEq(rep_levels, num_values, 0)
                   ELSE @ + num_values]
      s2 == WriteValues(s1, values_to_write, values)
      s3 == [s2 EXCEPT
               !.cw.page_statistics =
                   IF props.statistics_enabled
                   THEN UpdateStatistics(@, values_to_write, num_values - values_to_write)
                   ELSE @,
               !.cw.num_buffered_values = @ + num_values,
               !.cw.num_buffered_encoded_values = @ + values_to_write,
               !.h.levels_processed = @ + num_values]
  IN [CheckPageLimits(s3) EXCEPT !.ret = values_to_write]

\* TypedColumnWriterImpl::WriteMiniBatchSpaced
WriteMiniBatchSpaced(s, num_levels, def_levels, rep_levels, valid_bits, valid_bits_offset, values) ==
  LET min_spaced_def_level ==
        IF props.descr.optional THEN max_definition_level - 1 ELSE max_definition_level
      values_to_write ==
        IF max_definition_level > 0
        THEN CountEq(def_levels, num_levels, max_definition_level)
        ELSE num_levels
      spaced_values_to_write ==
        IF max_definition_level > 0
        THEN CountGe(def_levels, num_levels, min_spaced_def_level)
        ELSE num_levels
      s1 == [s EXCEPT
               !.cw.definition_levels_sink =
                   IF max_definition_level > 0
                   THEN @ \o SubSeq(def_levels, 1, num_levels) ELSE @,
               !.cw.repetition_levels_sink =
                   IF max_repetition_level > 0
                   THEN @ \o SubSeq(rep_levels, 1, num_levels) ELSE @,
               !.cw.rows_written =
                   IF max_repetition_level > 0
                   THEN @ + CountEq(rep_levels, num_levels, 0)
                   ELSE @ + num_levels]
      s2 == IF props.descr.optional
            THEN WriteValuesSpaced(s1, spaced_values_to_write, valid_bits,
                                   valid_bits_offset, values)
            ELSE WriteValues(s1, values_to_write, values)
      s3 == [s2 EXCEPT
               !.cw.page_statistics =
                   IF props.statistics_enabled
                   THEN UpdateStatistics(@, values_to_write,
                                         spaced_values_to_write - values_to_write)
                   ELSE @,
               !.cw.num_buffered_values = @ + num_levels,
               !.cw.num_buffered_encoded_values = @ + values_to_write,
               !.h.levels_processed = @ + num_levels]
  IN [CheckPageLimits(s3) EXCEPT !.ret = values_to_write,
                                 !.num_spaced_written = spaced_values_to_write]

RECURSIVE WriteBatchRounds(_, _, _, _, _, _, _)
\* WriteBatch: value_offset += the values the mini-batch wrote, next round
WriteBatchNextRound(s1, round, num_batches, def_levels, rep_levels, values, value_offset) ==
  WriteBatchRounds(s1, round + 1, num_batches, def_levels, rep_levels, values,
                   value_offset + s1.ret)

\* the loop of WriteBatch over the full mini-batches, from round on
WriteBatchRounds(s, round, num_batches, def_levels, rep_levels, values, value_offset) ==
  IF round >= num_batches THEN [s EXCEPT !.ret = value_offset]
  ELSE LET offset == round * props.write_batch_size
       IN WriteBatchNextRound(
            WriteMiniBatch(s, props.write_batch_size, PtrAt(def_levels, offset),
                           PtrAt(rep_levels, offset), PtrAt(values, value_offset)),
            round, num_batches, def_levels, rep_levels, values, value_offset)

\* WriteBatch: the remaining levels, after the loop left value_offset in s1.ret
WriteBatchRemaining(s1, num_remaining, offset, def_levels, rep_levels, values) ==
  WriteMiniBatch(s1, num_remaining, PtrAt(def_levels, offset),
                 PtrAt(rep_levels, offset), PtrAt(values, s1.ret))

\* a mutant of TypedColumnWriterImpl::WriteBatch: the remaining levels are not written
WriteBatch_NoRemainder(s, num_values, def_levels, rep_levels, values) ==
  LET num_batches == num_values \div props.write_batch_size
  IN WriteBatchRounds(s, 0, num_batches, def_levels, rep_levels, values, 0)

\* TypedColumnWriterImpl::WriteBatch
WriteBatch(s, num_values, def_levels, rep_levels, values) ==
  LET write_batch_size == props.write_batch_size
      num_batches == num_values \div write_batch_size
      num_remaining == num_values % write_batch_size
      offset == num_batches * write_batch_size
  IN WriteBatchRemaining(
       WriteBatchRounds(s, 0, num_batches, def_levels, rep_levels, values, 0),
       num_remaining, offset, def_levels, rep_levels, values)

RECURSIVE WriteBatchSpacedRounds(_, _, _, _, _, _, _, _, _)
\* WriteBatchSpaced: values_offset += num_spaced_written, next round
WriteBatchSpacedNextRound(s1, round, num_batches, def_levels, rep_levels, valid_bits, valid_bits_offset, values, values_offset) ==
  WriteBatchSpacedRounds(s1, round + 1, num_batches, def_levels, rep_levels,
                         valid_bits, valid_bits_offset, values,
                         values_offset + s1.num_spaced_written)

\* the loop of WriteBatchSpaced over the full mini-batches, from round on
WriteBatchSpacedRounds(s, round, num_batches, def_levels, rep_levels, valid_bits, valid_bits_offset, values, values_offset) ==
  IF round >= num_batches THEN [s EXCEPT !.ret = values_offset]
  ELSE LET offset == round * props.write_batch_size
       IN WriteBatchSpacedNextRound(
            WriteMiniBatchSpaced(s, props.write_batch_size, PtrAt(def_levels, offset),
                                 PtrAt(rep_levels, offset), valid_bits,
                                 valid_bits_offset + values_offset,
                                 PtrAt(values, values_offset)),
            round, num_batches, def_levels, rep_levels, valid_bits, valid_bits_offset,
            values, values_offset)

\* WriteBatchSpaced: the remaining levels, after the loop left values_offset in s1.ret
WriteBatchSpacedRemaining(s1, num_remaining, offset, def_levels, rep_levels, valid_bits, valid_bits_offset, values) ==
  WriteMiniBatchSpaced(s1, num_remaining, PtrAt(def_levels, offset),
                       PtrAt(rep_levels, offset), valid_bits,
                       valid_bits_offset + s1.ret, PtrAt(values, s1.ret))

\* TypedColumnWriterImpl::WriteBatchSpaced
WriteBatchSpaced(s, num_values, def_levels, rep_levels, valid_bits, valid_bits_offset, values) ==
  LET write_batch_size == props.write_batch_size
      num_batches == num_values \div write_batch_size
      num_remaining == num_values % write_batch_size
      offset == num_batches * write_batch_size
  IN WriteBatchSpacedRemaining(
       WriteBatchSpacedRounds(s, 0, num_batches, def_levels, rep_levels, valid_bits,
                              valid_bits_offset, values, 0),
       num_remaining, offset, def_levels, rep_levels, valid_bits, valid_bits_offset,
       values)

\* ColumnChunkMetaDataBuilderImpl::SetStatistics
SetStatistics(s, val) ==
  [s EXCEPT !.md.isset_statistics = TRUE, !.md.statistics = val,
            !.h.set_statistics_calls = @ + 1]

\* Close: the dictionary page is written if the dictionary is still open
CloseDictionary(s) ==
  IF s.cw.has_dictionary /\ ~s.cw.fallback THEN WriteDictionaryPage(s) ELSE s

\* Close: the chunk statistics go to the metadata when rows were written
CloseStatistics(s) ==
  IF s.cw.rows_written > 0 /\ props.statistics_enabled
  THEN SetStatistics(s, s.cw.chunk_statistics) ELSE s

\* Close: pager_->Close(has_dictionary_, fallback_)
ClosePager(s) == PageWriter_Close(s, s.cw.has_dictionary, s.cw.fallback)

\* Close: return total_bytes_written_
CloseReturn(s) == [s EXCEPT !.ret = s.cw.total_bytes_written]

\* a mutant of ColumnWriterImpl::Close: closed_ is not tested
Close_Unguarded(s) ==
  CloseReturn(ClosePager(CloseStatistics(FlushBufferedDataPages(
    CloseDictionary([s EXCEPT !.cw.closed = TRUE])))))

\* ColumnWriterImpl::Close
Close(s) ==
  IF ~s.cw.closed
  THEN CloseReturn(ClosePager(CloseStatistics(FlushBufferedDataPages(
         CloseDictionary([s EXCEPT !.cw.closed = TRUE])))))
  ELSE CloseReturn(s)

----------------------------------------------------------------------------
(* Construction *)

EmptySink(pos) == [pos |-> pos, items |-> <<>>, writes |-> 0, finished |-> FALSE]

\* WriterProperties, ColumnDescriptor and the PageWriter::Open arguments
PropsChoices ==
  { p \in [descr : Descrs,
           buffered : BOOLEAN,
           dictionary_enabled : BOOLEAN,
           codec : BOOLEAN,
           statistics_enabled : {TRUE},
           data_pagesize : DataPageSizes,
           dictionary_pagesize_limit : DictionaryPageSizeLimits,
           write_batch_size : WriteBatchSizes,
           encoding : {"PLAIN"},
           dictionary_index_encoding : {"PLAIN_DICTIONARY"},
           dictionary_page_encoding : {"PLAIN_DICTIONARY"},
           sink_start : {MagicLen}] :
      \* the dictionary limit is read only by a dictionary-encoding writer
      p.dictionary_enabled \/ \A l \in DictionaryPageSizeLimits : p.dictionary_pagesize_limit <= l }

\* ColumnWriter::Make and the ColumnWriterImpl / TypedColumnWriterImpl constructors
ColumnWriter_Make(p) ==
  [has_dictionary |-> p.dictionary_enabled,
   encoding |-> IF p.dictionary_enabled THEN p.dictionary_index_encoding ELSE p.encoding,
   num_buffered_values |-> 0,
   num_buffered_encoded_values |-> 0,
   rows_written |-> 0,
   total_bytes_written |-> 0,
   total_compressed_bytes |-> 0,
   closed |-> FALSE,
   fallback |-> FALSE,
   definition_levels_sink |-> <<>>,
   repetition_levels_sink |-> <<>>,
   data_pages |-> <<>>,
   current_encoder |-> MakeEncoder(IF p.dictionary_enabled THEN "DICTIONARY" ELSE "PLAIN"),
   page_statistics |-> EmptyStatistics,
   chunk_statistics |-> EmptyStatistics]

\* the SerializedPageWriter constructor
SerializedPageWriter_New ==
  [num_values |-> 0, dictionary_page_offset |-> 0, data_page_offset |-> 0,
   total_uncompressed_size |-> 0, total_compressed_size |-> 0, page_ordinal |-> 0]

\* the ColumnChunkMetaDataBuilderImpl constructor: an empty format::ColumnChunk
ColumnChunk_New ==
  [isset_dictionary_page_offset |-> FALSE, dictionary_page_offset |-> 0,
   file_offset |-> 0, isset_meta_data |-> FALSE, num_values |-> 0,
   data_page_offset |-> 0, total_uncompressed_size |-> 0, total_compressed_size |-> 0,
   encodings |-> <<>>, finish_calls |-> 0,
   isset_statistics |-> FALSE, statistics |-> EmptyStatistics,
   isset_crypto_metadata |-> FALSE,
   crypto_metadata |-> [isset_ENCRYPTION_WITH_FOOTER_KEY |-> FALSE,
                        isset_ENCRYPTION_WITH_COLUMN_KEY |-> FALSE, key_metadata |-> ""],
   isset_encrypted_column_metadata |-> FALSE, encrypted_column_metadata |-> <<>>]

NoCalls ==
  [levels |-> 0, def_eq_D |-> 0, rep_eq_0 |-> 0, submitted |-> <<>>, encoded |-> <<>>,
   close_calls |-> 0, levels_after_close |-> 0,
   dictionary_page_calls |-> 0, pager_close_calls |-> 0, set_statistics_calls |-> 0,
   pages_assembled |-> 0, fallback_calls |-> 0, levels_processed |-> 0,
   fallback_levels |-> 0,
   last_op |-> "New", last_ret |-> 0, first_close_ret |-> 0, failed |-> FALSE]

\* no file is on disk yet
NoFile == [exists |-> FALSE]

\* no SerializedFile is constructed yet
NoReader == [status |-> "none"]

\* no row group is being written
NoRowGroup == [exists |-> FALSE]

\* no metadata builder is constructed yet
NoBuilder == [exists |-> FALSE]

\* no statistics are collected yet
NoStatistics == [stage |-> "none"]

\* no encrypting PageWriter is constructed yet
NoPageWriter == [exists |-> FALSE]

Init ==
  /\ props \in PropsChoices
  /\ cw = ColumnWriter_Make(props)
  /\ pw = SerializedPageWriter_New
  \* PageWriter::Open: the buffered variant writes to a fresh in-memory sink
  /\ out = EmptySink(IF props.buffered THEN 0 ELSE props.sink_start)
  /\ fin = EmptySink(IF props.buffered THEN props.sink_start ELSE 0)
  /\ md = ColumnChunk_New
  /\ h = NoCalls
  /\ file = NoFile
  /\ rd = NoReader
  /\ rg = NoRowGroup
  /\ mb = NoBuilder
  /\ st = NoStatistics
  /\ ep = NoPageWriter

----------------------------------------------------------------------------
(* The caller's arrays *)

\* one submitted position: its levels and, when defined, its value; a position
\* that continues a list (rep > 0) lies inside a defined list (def > 0)
LevelChoices ==
  { l \in [def : 0..max_definition_level, rep : 0..max_repetition_level, val : Values \cup {0}] :
      /\ (l.val = 0) <=> (l.def < max_definition_level)
      /\ l.rep > 0 => l.def > 0 }

Batches(n) == [1..n -> LevelChoices]

DefLevels(batch) == [i \in 1..Len(batch) |-> batch[i].def]
RepLevels(batch) == [i \in 1..Len(batch) |-> batch[i].rep]

\* the dense values array of WriteBatch: the values of the defined positions
DenseValues(batch) ==
  LET IsDefined(l) == l.def = max_definition_level
      defined == SelectSeq(batch, IsDefined)
  IN [i \in 1..Len(defined) |-> defined[i].val]

\* the positions that have a slot in the spaced array of WriteBatchSpaced
SpacedSlots(batch) ==
  LET HasSlot(l) == IF props.descr.optional THEN l.def >= max_definition_level - 1
                    ELSE l.def = max_definition_level
  IN SelectSeq(batch, HasSlot)

SpacedValues(batch) == [i \in 1..Len(SpacedSlots(batch)) |-> SpacedSlots(batch)[i].val]
ValidBits(batch) ==
  [i \in 1..Len(SpacedSlots(batch)) |-> SpacedSlots(batch)[i].def = max_definition_level]

----------------------------------------------------------------------------
(* Actions: the calls on the ColumnWriter *)

State == [cw |-> cw, pw |-> pw, out |-> out, fin |-> fin, md |-> md, h |-> h,
          ret |-> 0, num_spaced_written |-> 0]

\* the state after a call that returned
Return(t, hist) ==
  /\ cw' = t.cw
  /\ pw' = t.pw
  /\ out' = t.out
  /\ fin' = t.fin
  /\ md' = t.md
  /\ h' = hist
  /\ UNCHANGED <<props, file, rd, rg, mb, st, ep>>

\* a call ended by a failure (DCHECK abort or exception): the writer is not used again
Fail(op, n) ==
  /\ h' = [h EXCEPT !.failed = TRUE, !.last_op = op, !.levels_after_close = @ + n]
  /\ UNCHANGED <<props, cw, pw, out, fin, md, file, rd, rg, mb, st, ep>>

\* what the caller submitted, added to the observation
Submitted(hist, op, batch, ret) ==
  [hist EXCEPT !.levels = @ + Len(batch),
               !.def_eq_D = @ + Len(DenseValues(batch)),
               !.rep_eq_0 = @ + CountEq(RepLevels(batch), Len(batch), 0),
               !.submitted = @ \o DenseValues(batch),
               !.levels_after_close = IF cw.closed THEN @ + Len(batch) ELSE @,
               !.last_op = op, !.last_ret = ret]

\* DCHECK(!closed_) in WriteDefinitionLevels / WriteRepetitionLevels aborts a debug
\* build; a write to the in-memory sink after its Finish may be refused
MayFail(t) ==
  /\ cw.closed
  /\ \/ max_definition_level > 0
     \/ max_repetition_level > 0
     \/ out.finished /\ t.out.writes > out.writes

\* the calls so far are WriteBatch/WriteBatchSpaced calls, then Close calls
NoWriteAfterClose == h.levels_after_close = 0

\* the calls the model makes: the caller stops at the bounds and after a failure
CanWrite(n) ==
  /\ ~h.failed
  /\ h.levels + n <= MaxLevels
  /\ cw.closed => n > 0 /\ h.levels_after_close + n <= MaxLevelsAfterClose

CallWriteBatch ==
  \E n \in 0..MaxBatch :
    /\ CanWrite(n)
    /\ \E batch \in Batches(n) :
         \E t \in {WriteBatch(State, n, DefLevels(batch), RepLevels(batch),
                              DenseValues(batch))} :
            \/ Return(t, Submitted(t.h, "WriteBatch", batch, 0))
            \/ MayFail(t) /\ Fail("WriteBatch", n)

CallWriteBatchSpaced ==
  \E n \in 0..MaxBatch :
    /\ CanWrite(n)
    /\ \E batch \in Batches(n) :
         \E t \in {WriteBatchSpaced(State, n, DefLevels(batch), RepLevels(batch),
                                    ValidBits(batch), 0, SpacedValues(batch))} :
            \/ Return(t, Submitted(t.h, "WriteBatch", batch, 0))
            \/ MayFail(t) /\ Fail("WriteBatch", n)

CallClose ==
  /\ ~h.failed
  /\ h.close_calls < MaxCloseCalls
  /\ NoWriteAfterClose
  /\ \E t \in {Close(State)} :
       Return(t, [t.h EXCEPT !.close_calls = @ + 1,
                             !.last_op = "Close", !.last_ret = t.ret,
                             !.first_close_ret = IF h.close_calls = 0 THEN t.ret ELSE @])

Next == CallWriteBatch \/ CallWriteBatchSpaced \/ CallClose

Spec == Init /\ [][Next]_vars

----------------------------------------------------------------------------
(* What is observed of a chunk *)

\* the sink of the file: the chunk's pages are there once they are written
\* (streaming) or once the PageWriter is closed (buffered)
FileSink == IF props.buffered THEN fin ELSE out

IsDataPage(item) == item.type = "DATA_PAGE"
IsDictionaryPage(item) == item.type = "DICTIONARY_PAGE"
IsPage(item) == IsDataPage(item) \/ IsDictionaryPage(item)

DataPagesOf(sink) == SelectSeq(sink.items, IsDataPage)
DictionaryPagesOf(sink) == SelectSeq(sink.items, IsDictionaryPage)
PagesOf(sink) == SelectSeq(sink.items, IsPage)

RECURSIVE SumNumValues(_)
SumNumValues(pages) ==
  IF pages = <<>> THEN 0 ELSE Head(pages).num_values + SumNumValues(Tail(pages))

RECURSIVE SumUncompressedPageSize(_)
SumUncompressedPageSize(pages) ==
  IF pages = <<>> THEN 0
  ELSE Head(pages).uncompressed_page_size + SumUncompressedPageSize(Tail(pages))

RECURSIVE SumCompressedPageSize(_)
SumCompressedPageSize(pages) ==
  IF pages = <<>> THEN 0
  ELSE Head(pages).compressed_page_size + SumCompressedPageSize(Tail(pages))

RECURSIVE SumHeaderSize(_)
SumHeaderSize(pages) ==
  IF pages = <<>> THEN 0 ELSE Head(pages).header_size + SumHeaderSize(Tail(pages))

\* the chunk was closed by a sequence of writes ended by Close
ChunkClosed == cw.closed /\ NoWriteAfterClose

\* the dictionary page, if any, is in front of every data page, and the data
\* pages are in the order AddDataPage assembled them (seq)
InProductionOrder(items) ==
  \A i, j \in 1..Len(items) :
    i < j => /\ ~(IsDataPage(items[i]) /\ IsDictionaryPage(items[j]))
             /\ IsDataPage(items[i]) /\ IsDataPage(items[j]) => items[i].seq < items[j].seq

----------------------------------------------------------------------------
(* Claims *)

\* C1: for writes ended by Close, with either PageWriter, the pages are in the
\* sink in production order: the dictionary page before every data page, the
\* data pages in the order AddDataPage assembled them, also across a fallback;
\* once closed, every assembled page is in the file sink.
C1_PagesInProductionOrder ==
  NoWriteAfterClose =>
    /\ InProductionOrder(out.items)
    /\ InProductionOrder(fin.items)
    /\ cw.closed =>
         LET pages == DataPagesOf(FileSink)
         IN /\ Len(pages) = h.pages_assembled
            /\ \A i \in 1..Len(pages) : pages[i].seq = i

\* a closed chunk with a dictionary page, pages buffered before the fallback
\* and a page assembled after it
C1_Witness ==
  /\ ChunkClosed
  /\ cw.fallback
  /\ Len(DictionaryPagesOf(FileSink)) = 1
  /\ \E i, j \in 1..Len(DataPagesOf(FileSink)) :
       /\ i < j
       /\ DataPagesOf(FileSink)[i].encoding = "PLAIN_DICTIONARY"
       /\ DataPagesOf(FileSink)[j].encoding = "PLAIN"

\* C2: for writes ended by Close (possibly repeated), WriteDictionaryPage is
\* invoked at most once, and the recorded dictionary_page_offset is below the
\* offset of every data page of the chunk, in the PageWriter's sink and, once
\* closed, in the file.
C2_OneDictionaryPageFirst ==
  NoWriteAfterClose =>
    /\ h.dictionary_page_calls <= 1
    /\ Len(DictionaryPagesOf(out)) = h.dictionary_page_calls
    /\ h.dictionary_page_calls = 1 =>
         /\ \A i \in 1..Len(DataPagesOf(out)) :
              pw.dictionary_page_offset < DataPagesOf(out)[i].offset
         /\ cw.closed =>
              /\ DictionaryPagesOf(FileSink)[1].offset = md.dictionary_page_offset
              /\ \A i \in 1..Len(DataPagesOf(FileSink)) :
                   md.dictionary_page_offset < DataPagesOf(FileSink)[i].offset

\* the dictionary page was written at the fallback, the chunk was closed twice
C2_Witness ==
  /\ ChunkClosed
  /\ h.close_calls = 2
  /\ h.fallback_calls = 1
  /\ h.dictionary_page_calls = 1
  /\ Len(DataPagesOf(FileSink)) >= 2

\* C3: for every chunk finished through PageWriter.Close, file_offset ==
\* (dictionary_page_offset if the chunk has a dictionary page else
\* data_page_offset) + total_compressed_size.
C3_FileOffset ==
  (ChunkClosed /\ md.finish_calls > 0) =>
    md.file_offset =
      (IF Len(DictionaryPagesOf(FileSink)) > 0 THEN md.dictionary_page_offset
       ELSE md.data_page_offset) + md.total_compressed_size

\* C4: the data_page_offset of the chunk metadata is the offset in the file
\* sink at which the first data page of the chunk was written.
C4_DataPageOffset ==
  (ChunkClosed /\ md.finish_calls > 0 /\ Len(DataPagesOf(FileSink)) > 0) =>
    md.data_page_offset = DataPagesOf(FileSink)[1].offset

\* C5 as stated: the uncompressed_page_size of the page headers add up to
\* total_uncompressed_size, and the compressed_page_size to
\* total_compressed_size.
C5_PageSizesAddUp ==
  /\ SumUncompressedPageSize(PagesOf(out)) = pw.total_uncompressed_size
  /\ SumCompressedPageSize(PagesOf(out)) = pw.total_compressed_size
  /\ (ChunkClosed /\ md.finish_calls > 0) =>
       /\ SumUncompressedPageSize(PagesOf(FileSink)) = md.total_uncompressed_size
       /\ SumCompressedPageSize(PagesOf(FileSink)) = md.total_compressed_size

\* C5, amended: the serialized page headers count too: the sum over the
\* written pages of header size + uncompressed_page_size is
\* total_uncompressed_size, and that of header size + compressed_page_size is
\* total_compressed_size, in the PageWriter after every page and in the chunk
\* metadata at Close.
C5_PageAndHeaderSizesAddUp ==
  /\ SumUncompressedPageSize(PagesOf(out)) + SumHeaderSize(PagesOf(out))
       = pw.total_uncompressed_size
  /\ SumCompressedPageSize(PagesOf(out)) + SumHeaderSize(PagesOf(out))
       = pw.total_compressed_size
  /\ (ChunkClosed /\ md.finish_calls > 0) =>
       /\ SumUncompressedPageSize(PagesOf(FileSink)) + SumHeaderSize(PagesOf(FileSink))
            = md.total_uncompressed_size
       /\ SumCompressedPageSize(PagesOf(FileSink)) + SumHeaderSize(PagesOf(FileSink))
            = md.total_compressed_size

\* a closed chunk with a dictionary page and two data pages, compressed
C5_Witness ==
  /\ ChunkClosed
  /\ props.codec
  /\ Len(DictionaryPagesOf(FileSink)) = 1
  /\ Len(DataPagesOf(FileSink)) >= 2
  /\ md.total_compressed_size < md.total_uncompressed_size

\* C6: no level or value is lost or duplicated: the values handed to the
\* encoder are the submitted values of the positions with def = D, in order;
\* every submitted level is in exactly one page or still buffered; for writes
\* ended by Close the num_values of the data pages written add up to the
\* number of levels submitted and to num_values of the chunk metadata.
C6_NoLevelOrValueLost ==
  /\ h.encoded = h.submitted
  /\ Len(h.encoded) = h.def_eq_D
  /\ SumNumValues(DataPagesOf(out)) + SumNumValues(cw.data_pages) + cw.num_buffered_values
       = h.levels
  /\ ChunkClosed =>
       /\ SumNumValues(DataPagesOf(FileSink)) = h.levels
       /\ md.num_values = h.levels

\* a closed chunk of several pages, written across a fallback, with a null
C6_Witness ==
  /\ ChunkClosed
  /\ cw.fallback
  /\ h.levels >= 3
  /\ h.def_eq_D < h.levels
  /\ h.def_eq_D >= 2
  /\ Len(DataPagesOf(FileSink)) >= 2

\* C7: rows_written is the number of submitted levels when R = 0 (so that
\* num_values = num_rows for the chunk) and the number of submitted positions
\* with repetition level 0 when R > 0.
C7_RowsWritten ==
  /\ cw.rows_written = (IF max_repetition_level = 0 THEN h.levels ELSE h.rep_eq_0)
  /\ (ChunkClosed /\ max_repetition_level = 0) => md.num_values = cw.rows_written

\* a repeated column with a row of several positions
C7_Witness ==
  /\ max_repetition_level > 0
  /\ cw.rows_written > 0
  /\ cw.rows_written < h.levels

\* the data pages of the sink that carry the dictionary index encoding
IsDictionaryEncoded(item) == IsDataPage(item) /\ item.encoding = props.dictionary_index_encoding
IsPlainEncoded(item) == IsDataPage(item) /\ item.encoding = "PLAIN"

\* what holds between calls of a writer that dictionary-encodes or has fallen back
C8_FallbackState ==
  \* the size check ran after the last mini-batch
  /\ (cw.has_dictionary /\ ~cw.fallback) =>
       dict_encoded_size(cw.current_encoder) < props.dictionary_pagesize_limit
  /\ h.fallback_calls > 0 =>
       /\ cw.fallback
       /\ cw.encoding = "PLAIN"
       /\ cw.current_encoder.kind = "PLAIN"
       /\ cw.data_pages = <<>>
       /\ NoWriteAfterClose =>
            LET pages == PagesOf(out)
                k == Len(SelectSeq(pages, IsDictionaryEncoded))
            IN /\ Len(pages) = 1 + h.pages_assembled
               /\ IsDictionaryPage(pages[1])
               /\ \A i \in 2..Len(pages) :
                    /\ pages[i].seq = i - 1
                    /\ IF i <= k + 1 THEN IsDictionaryEncoded(pages[i])
                       ELSE IsPlainEncoded(pages[i])
               /\ SumNumValues(SelectSeq(pages, IsDictionaryEncoded)) = h.fallback_levels

\* C8: when the dictionary reaches dictionary_pagesize_limit after a
\* mini-batch, the dictionary page is written, then every buffered data page
\* in order, the levels of the current mini-batch included, all
\* dictionary-encoded; the writer then has a PLAIN encoder, encoding PLAIN and
\* fallback set; the data pages assembled afterwards are PLAIN and in the sink
\* as soon as they are assembled; fallback is never reset.
C8_DictionaryFallback ==
  /\ []C8_FallbackState
  /\ [][cw.fallback => cw'.fallback]_vars

\* an open chunk after a fallback whose dictionary-encoded page was followed by
\* a PLAIN page
C8_Witness ==
  /\ ~cw.closed
  /\ cw.fallback
  /\ h.fallback_levels > 0
  /\ Len(SelectSeq(PagesOf(out), IsDictionaryEncoded)) >= 1
  /\ Len(SelectSeq(PagesOf(out), IsPlainEncoded)) >= 1

\* a Close call on a closed writer
CloseAgain == cw.closed /\ h'.close_calls = h.close_calls + 1

\* C9: Close is idempotent: the first call calls PageWriter.Close once; a later
\* call writes no page, calls neither PageWriter.Close nor SetStatistics,
\* changes no writer state and returns the total_bytes_written the first call
\* returned.
C9_CloseIdempotent ==
  /\ [](/\ h.pager_close_calls = (IF h.close_calls > 0 THEN 1 ELSE 0)
        /\ md.finish_calls = h.pager_close_calls
        /\ h.set_statistics_calls <= 1)
  /\ [][CloseAgain =>
          /\ UNCHANGED <<cw, pw, out, fin, md>>
          /\ h'.pager_close_calls = h.pager_close_calls
          /\ h'.set_statistics_calls = h.set_statistics_calls
          /\ h'.dictionary_page_calls = h.dictionary_page_calls
          /\ h'.last_ret = cw.total_bytes_written
          /\ NoWriteAfterClose => h'.last_ret = h.first_close_ret]_vars

\* a chunk with pages and statistics, closed twice
C9_Witness ==
  /\ h.close_calls = 2
  /\ NoWriteAfterClose
  /\ md.isset_statistics
  /\ Len(DictionaryPagesOf(FileSink)) = 1
  /\ Len(DataPagesOf(FileSink)) >= 1
  /\ h.last_ret > 0

\* a WriteBatch or WriteBatchSpaced call on a closed writer
WriteAfterClose == cw.closed /\ h'.levels_after_close > h.levels_after_close

\* C10: a WriteBatch or WriteBatchSpaced call after Close fails, buffers no
\* level and no value and writes no page.
C10_WriteAfterCloseFails ==
  [][WriteAfterClose => (h'.failed /\ UNCHANGED <<cw, pw, out, fin, md>>)]_vars

\* C11: Close on a writer to which no level was written, with dictionary
\* encoding enabled or disabled, emits no page at all; the chunk's metadata has
\* num_values = 0, zero page offsets, zero totals and no statistics.
C11_EmptyChunkNoPage ==
  (ChunkClosed /\ h.levels = 0) =>
  /\ PagesOf(FileSink) = <<>>
  /\ md.isset_meta_data
  /\ md.num_values = 0
  /\ md.dictionary_page_offset = 0
  /\ md.data_page_offset = 0
  /\ md.total_uncompressed_size = 0
  /\ md.total_compressed_size = 0
  /\ ~md.isset_statistics

----------------------------------------------------------------------------
(* Integers of the reader: uint32_t and int64_t values in 16-bit limbs *)

\* one limb: an integer n is [hi, lo] with n = hi * 2^16 + lo and 0 <= lo < 2^16
Limb == 65536

Wide(hi, lo) == [hi |-> hi, lo |-> lo]

\* the int64_t of a small non-negative number
WideOf(n) == Wide(n \div Limb, n % Limb)

\* int64_t addition and subtraction (no overflow at the sizes of the model)
WideAdd(a, b) == Wide(a.hi + b.hi + (a.lo + b.lo) \div Limb, (a.lo + b.lo) % Limb)
WideSub(a, b) == Wide(a.hi - b.hi + (a.lo - b.lo) \div Limb, (a.lo - b.lo) % Limb)

WideLt(a, b) == a.hi < b.hi \/ (a.hi = b.hi /\ a.lo < b.lo)
WideLe(a, b) == a = b \/ WideLt(a, b)

\* conversion to uint32_t: the value modulo 2^32
ToUint32(a) == Wide(a.hi % Limb, a.lo)

\* uint32_t addition as the compiler does it: modulo 2^32
Uint32Add(a, b) == ToUint32(WideAdd(a, b))
Uint32Sub(a, b) == ToUint32(WideSub(a, b))

WideMin(a, b) == IF WideLt(a, b) THEN a ELSE b

\* the number of a wide value below 2^16, -1 for every other value
Small(a) == IF a.hi = 0 THEN a.lo ELSE -1

\* a null pointer
NULLPTR == [null |-> TRUE]

----------------------------------------------------------------------------
(* Thrift and AES-GCM as the reader and the metadata builders use them *)

\* serialized sizes of the Thrift structures of the model
FileMetaDataBytes == 10
FileCryptoMetaDataBytes == 3
ColumnMetaDataBytes == 4

\* encryption::kNonceLength and encryption::kGcmTagLength
kNonceLength == 12
kGcmTagLength == 16
\* Encryptor::CiphertextSizeDelta, Decryptor::CiphertextSizeDelta
CiphertextSizeDelta == kNonceLength + kGcmTagLength

\* the nonce an encryptor draws, and another value of a nonce
FreshNonce == "n1"
OtherNonce == "n2"

\* ThriftSerializer::SerializeToBuffer: the compact encoding of a structure.
\* wire = 0 is the encoding the serializer produces; the same structure has
\* other encodings of the same length (wire > 0), which only a changed file holds.
SerializeToBuffer(type, obj, len) ==
  [kind |-> "thrift", type |-> type, obj |-> obj, wire |-> 0, len |-> len]

\* DeserializeThriftUnencryptedMsg: the structure read from the front of a
\* buffer; *len becomes the number of bytes the structure took
DeserializeThriftUnencryptedMsg(buf, type) ==
  IF buf # <<>> /\ Head(buf).kind = "thrift" /\ Head(buf).type = type
  THEN [ok |-> TRUE, msg |-> Head(buf).obj, len |-> Head(buf).len]
  ELSE [ok |-> FALSE, msg |-> NULLPTR, len |-> 0]

\* the GCM tag of a plaintext under a key, an AAD and a nonce
GcmTag(key, aad, nonce, plaintext) ==
  [key |-> key, aad |-> aad, nonce |-> nonce, plaintext |-> plaintext, flipped |-> FALSE]

\* encryption::CreateFooterAad and encryption::CreateModuleAad
CreateFooterAad(file_aad) == <<file_aad, "Footer", -1, -1>>
CreateModuleAad(file_aad, module, row_group_ordinal, column_ordinal) ==
  <<file_aad, module, row_group_ordinal, column_ordinal>>

\* an Encryptor / a Decryptor of the internal file encryptor / decryptor
Cryptor(key, aad) == [key |-> key, aad |-> aad]

\* Encryptor::Encrypt: nonce, ciphertext, tag
Encrypt(encryptor, plaintext) ==
  [kind |-> "cipher", nonce |-> FreshNonce, plaintext |-> plaintext,
   tag |-> GcmTag(encryptor.key, encryptor.aad, FreshNonce, plaintext),
   len |-> plaintext.len + CiphertextSizeDelta]

\* AesEncryptor::SignedFooterEncrypt: the tag of the footer under a given nonce
SignedFooterEncrypt(footer, key, aad, nonce) == GcmTag(key, aad, nonce, footer)

\* Decryptor::Decrypt: the plaintext when the tag verifies, nothing otherwise
Decrypt(decryptor, ciphertext) ==
  IF ciphertext.tag = GcmTag(decryptor.key, decryptor.aad, ciphertext.nonce, ciphertext.plaintext)
  THEN <<ciphertext.plaintext>> ELSE <<>>

\* DeserializeThriftMsg with a decryptor: decrypt, then read the structure
DeserializeThriftEncryptedMsg(buf, type, decryptor) ==
  IF buf # <<>> /\ Head(buf).kind = "cipher" /\ Decrypt(decryptor, Head(buf)) # <<>>
  THEN [DeserializeThriftUnencryptedMsg(Decrypt(decryptor, Head(buf)), type)
          EXCEPT !.len = Head(buf).len]
  ELSE [ok |-> FALSE, msg |-> NULLPTR, len |-> 0]

\* DeserializeThriftMsg
DeserializeThriftMsg(buf, type, decryptor) ==
  IF decryptor = NULLPTR THEN DeserializeThriftUnencryptedMsg(buf, type)
  ELSE DeserializeThriftEncryptedMsg(buf, type, decryptor)

----------------------------------------------------------------------------
(* The metadata builders with encryption, and the footer they write *)

\* the keys of the writer
FooterKey == "kf"
ColumnKey == "kc"

\* ColumnEncryptionProperties of a column: absent, or is_encrypted() and
\* is_encrypted_with_footer_key() in every combination
ColumnEncryptionChoices ==
  {NULLPTR} \cup [is_encrypted : BOOLEAN, is_encrypted_with_footer_key : BOOLEAN,
                  key_metadata : {ColumnKey}]

\* ParquetCipher
ParquetCiphers == {"AES_GCM_V1", "AES_GCM_CTR_V1"}

\* FileEncryptionProperties: footer mode, the cipher, and the AAD prefix: none,
\* stored in the file, or left to the reader (supply_aad_prefix)
FileEncryptionChoices ==
  {NULLPTR} \cup
  { [encrypted_footer |-> ef, footer_key_metadata |-> FooterKey,
     file_aad |-> <<a.prefix, "u">>,
     algorithm |-> [aad_prefix |-> IF a.store THEN a.prefix ELSE "",
                    aad_file_unique |-> "u",
                    supply_aad_prefix |-> (a.prefix # "" /\ ~a.store),
                    algorithm |-> cipher]] :
      ef \in BOOLEAN, cipher \in ParquetCiphers,
      a \in {[prefix |-> "", store |-> FALSE], [prefix |-> "p", store |-> TRUE],
             [prefix |-> "p", store |-> FALSE]} }

\* a mutant of Encryptor::EncryptColumnMetaData: the footer mode is not looked at
EncryptColumnMetaData_OwnKeyOnly(encrypted_footer, column_encryption_properties) ==
  /\ column_encryption_properties # NULLPTR
  /\ column_encryption_properties.is_encrypted
  /\ ~column_encryption_properties.is_encrypted_with_footer_key

\* Encryptor::EncryptColumnMetaData
EncryptColumnMetaData(encrypted_footer, column_encryption_properties) ==
  IF column_encryption_properties = NULLPTR \/ ~column_encryption_properties.is_encrypted
  THEN FALSE
  ELSE IF ~encrypted_footer THEN TRUE
  ELSE ~column_encryption_properties.is_encrypted_with_footer_key

\* column_chunk_->meta_data: the format::ColumnMetaData inside a format::ColumnChunk
meta_data(column) ==
  [num_values |-> column.num_values,
   data_page_offset |-> column.data_page_offset,
   isset_dictionary_page_offset |-> column.isset_dictionary_page_offset,
   dictionary_page_offset |-> column.dictionary_page_offset,
   total_uncompressed_size |-> column.total_uncompressed_size,
   total_compressed_size |-> column.total_compressed_size,
   encodings |-> column.encodings,
   isset_statistics |-> column.isset_statistics,
   statistics |-> column.statistics]

\* ColumnChunkMetaDataBuilderImpl::Finish: the ColumnCryptoMetaData of an
\* encrypted column
FinishCryptoMetaData(s, encrypt_md) ==
  [s EXCEPT
     !.md.isset_crypto_metadata = TRUE,
     !.md.crypto_metadata =
        IF encrypt_md.is_encrypted_with_footer_key
        THEN [isset_ENCRYPTION_WITH_FOOTER_KEY |-> TRUE,
              isset_ENCRYPTION_WITH_COLUMN_KEY |-> FALSE, key_metadata |-> ""]
        ELSE [isset_ENCRYPTION_WITH_FOOTER_KEY |-> FALSE,
              isset_ENCRYPTION_WITH_COLUMN_KEY |-> TRUE,
              key_metadata |-> encrypt_md.key_metadata]]

\* a mutant of Finish: the plaintext copy of a plaintext footer keeps its
\* statistics
FinishEncryptMetaData_KeepsStatistics(s, encrypt_md, encrypted_footer, encryptor) ==
  IF ~encrypted_footer \/ ~encrypt_md.is_encrypted_with_footer_key
  THEN [s EXCEPT
          !.md.isset_encrypted_column_metadata = TRUE,
          !.md.encrypted_column_metadata =
             <<Encrypt(encryptor, SerializeToBuffer("ColumnMetaData", meta_data(s.md), ColumnMetaDataBytes))>>,
          !.md.isset_meta_data = ~encrypted_footer]
  ELSE s

\* ColumnChunkMetaDataBuilderImpl::Finish: the ColumnMetaData is serialized and
\* encrypted into encrypted_column_metadata; the plaintext copy is dropped
\* (encrypted footer) or kept without statistics (plaintext footer)
FinishEncryptMetaData(s, encrypt_md, encrypted_footer, encryptor) ==
  IF ~encrypted_footer \/ ~encrypt_md.is_encrypted_with_footer_key
  THEN [s EXCEPT
          !.md.isset_encrypted_column_metadata = TRUE,
          !.md.encrypted_column_metadata =
             <<Encrypt(encryptor, SerializeToBuffer("ColumnMetaData", meta_data(s.md), ColumnMetaDataBytes))>>,
          !.md.isset_meta_data = ~encrypted_footer,
          !.md.isset_statistics = IF encrypted_footer THEN @ ELSE FALSE]
  ELSE s

\* ColumnChunkMetaDataBuilderImpl::Finish (the encryption of the column metadata)
FinishEncryption(s, encrypt_md, encrypted_footer, encryptor) ==
  IF encrypt_md # NULLPTR /\ encrypt_md.is_encrypted
  THEN FinishEncryptMetaData(FinishCryptoMetaData(s, encrypt_md), encrypt_md, encrypted_footer, encryptor)
  ELSE s

\* what the column writer of column i hands to the metadata builder
ColumnInputs(i) ==
  [num_values |-> i + 1,
   dictionary_page_offset |-> IF i = 0 THEN MagicLen ELSE 0,
   data_page_offset |-> MagicLen + 13 * i + 2,
   compressed_size |-> 10,
   uncompressed_size |-> 12,
   has_dictionary |-> (i = 0),
   statistics |-> [num_values |-> i + 1, null_count |-> 0]]

\* InternalFileEncryptor::GetColumnMetaEncryptor: the footer key or the column's
\* own key, with the ColumnMetaData module AAD of the chunk (row group 0)
GetColumnMetaEncryptor(file_encryption_properties, encrypt_md, i) ==
  IF file_encryption_properties = NULLPTR \/ encrypt_md = NULLPTR THEN NULLPTR
  ELSE Cryptor(IF encrypt_md.is_encrypted_with_footer_key THEN FooterKey ELSE encrypt_md.key_metadata,
               CreateModuleAad(file_encryption_properties.file_aad, "ColumnMetaData", 0, i))

\* the builder state of one column chunk
NewColumnChunkBuilder == [md |-> ColumnChunk_New, h |-> NoCalls]

\* one column chunk: SetStatistics, then Finish with the writer's positions
FinishedColumnChunk(in) ==
  Finish(SetStatistics(NewColumnChunkBuilder, in.statistics), in.num_values, in.dictionary_page_offset, in.data_page_offset, in.compressed_size, in.uncompressed_size, in.has_dictionary, FALSE)

\* the format::ColumnChunk of column i of a file
BuildColumnChunk(file_encryption_properties, encrypt_md, i) ==
  FinishEncryption(FinishedColumnChunk(ColumnInputs(i)), encrypt_md,
                   file_encryption_properties # NULLPTR /\ file_encryption_properties.encrypted_footer,
                   GetColumnMetaEncryptor(file_encryption_properties, encrypt_md, i)).md

\* the column ordinals of the model's schema
Columns == {0, 1}

\* RowGroupMetaDataBuilder: the format::RowGroup of the file, one chunk per column
BuildRowGroup(file_encryption_properties, column_encryption_properties) ==
  [num_rows |-> 2,
   columns |-> [i \in Columns |->
                  BuildColumnChunk(file_encryption_properties, column_encryption_properties[i], i)]]

\* a created_by string "<application> version <n1>.<n2>...": the application
\* name as written and the numbers of the version
CreatedBy(application, numbers) == [application |-> application, numbers |-> numbers]

\* ::tolower over the application names of the model
ToLower(str) == IF str = "Parquet-MR" THEN "parquet-mr" ELSE str

\* ApplicationVersion(created_by): the application in lower case, and
\* major.minor.patch if the version starts with three numbers, else 0.0.0
ApplicationVersion_Parse(created_by) ==
  [application |-> ToLower(created_by.application),
   major |-> IF Len(created_by.numbers) >= 3 THEN created_by.numbers[1] ELSE 0,
   minor |-> IF Len(created_by.numbers) >= 3 THEN created_by.numbers[2] ELSE 0,
   patch |-> IF Len(created_by.numbers) >= 3 THEN created_by.numbers[3] ELSE 0]

\* ApplicationVersion(application, major, minor, patch)
ApplicationVersion(application, major, minor, patch) ==
  [application |-> application, major |-> major, minor |-> minor, patch |-> patch]

\* ApplicationVersion::PARQUET_816_FIXED_VERSION
PARQUET_816_FIXED_VERSION == ApplicationVersion("parquet-mr", 1, 2, 9)

\* ApplicationVersion::VersionLt
VersionLt(version, other_version) ==
  IF version.application # other_version.application THEN FALSE
  ELSE IF version.major < other_version.major THEN TRUE
  ELSE IF version.major > other_version.major THEN FALSE
  ELSE IF version.minor < other_version.minor THEN TRUE
  ELSE IF version.minor > other_version.minor THEN FALSE
  ELSE version.patch < other_version.patch

\* properties_->created_by() of this library's writer
DefaultCreatedBy == CreatedBy("parquet-cpp", <<1, 5, 1>>)

\* FileMetaDataBuilderImpl::Finish: the signing algorithm of a plaintext footer
SigningAlgorithm(algo) ==
  [aad_prefix |-> IF ~algo.supply_aad_prefix THEN algo.aad_prefix ELSE "",
   aad_file_unique |-> algo.aad_file_unique,
   supply_aad_prefix |-> algo.supply_aad_prefix,
   algorithm |-> "AES_GCM_V1"]

NoAlgorithm == [aad_prefix |-> "", aad_file_unique |-> "", supply_aad_prefix |-> FALSE, algorithm |-> "NONE"]

\* FileMetaDataBuilderImpl::Finish
FileMetaDataBuilder_Finish(file_encryption_properties, row_group) ==
  [num_rows |-> row_group.num_rows,
   row_groups |-> <<row_group>>,
   version |-> 1,
   isset_created_by |-> TRUE,
   created_by |-> DefaultCreatedBy,
   isset_encryption_algorithm |->
      (file_encryption_properties # NULLPTR /\ ~file_encryption_properties.encrypted_footer),
   encryption_algorithm |->
      IF file_encryption_properties # NULLPTR /\ ~file_encryption_properties.encrypted_footer
      THEN SigningAlgorithm(file_encryption_properties.algorithm) ELSE NoAlgorithm,
   footer_signing_key_metadata |->
      IF file_encryption_properties # NULLPTR /\ ~file_encryption_properties.encrypted_footer
      THEN file_encryption_properties.footer_key_metadata ELSE ""]

\* FileMetaDataBuilderImpl::BuildFileCryptoMetaData
BuildFileCryptoMetaData(file_encryption_properties) ==
  [encryption_algorithm |-> file_encryption_properties.algorithm,
   key_metadata |-> file_encryption_properties.footer_key_metadata]

\* the Thrift writer leaves out an optional field whose __isset flag is false:
\* the reader of the bytes finds the field's default
WrittenColumnChunk(column) ==
  [column EXCEPT
     !.num_values = IF column.isset_meta_data THEN @ ELSE 0,
     !.data_page_offset = IF column.isset_meta_data THEN @ ELSE 0,
     !.isset_dictionary_page_offset = IF column.isset_meta_data THEN @ ELSE FALSE,
     !.dictionary_page_offset = IF column.isset_meta_data /\ column.isset_dictionary_page_offset THEN @ ELSE 0,
     !.total_uncompressed_size = IF column.isset_meta_data THEN @ ELSE 0,
     !.total_compressed_size = IF column.isset_meta_data THEN @ ELSE 0,
     !.encodings = IF column.isset_meta_data THEN @ ELSE <<>>,
     !.isset_statistics = IF column.isset_meta_data THEN @ ELSE FALSE,
     !.statistics = IF column.isset_meta_data /\ column.isset_statistics THEN @ ELSE EmptyStatistics,
     !.finish_calls = 0]

WrittenRowGroup(row_group) ==
  [row_group EXCEPT !.columns = [i \in DOMAIN row_group.columns |-> WrittenColumnChunk(row_group.columns[i])]]

\* ThriftSerializer::SerializeObject of a format::FileMetaData
SerializeFileMetaData(metadata) ==
  SerializeToBuffer("FileMetaData", [metadata EXCEPT !.row_groups = <<WrittenRowGroup(metadata.row_groups[1])>>], FileMetaDataBytes)

\* FileMetaDataImpl::WriteTo: a plaintext footer with its signature (nonce, tag),
\* or the footer serialized with the encryptor, if any
FileMetaData_WriteTo(metadata, encryptor) ==
  IF metadata.isset_encryption_algorithm
  THEN << SerializeFileMetaData(metadata),
          [kind |-> "nonce", nonce |-> Encrypt(encryptor, SerializeFileMetaData(metadata)).nonce, len |-> kNonceLength],
          [kind |-> "tag", tag |-> Encrypt(encryptor, SerializeFileMetaData(metadata)).tag, len |-> kGcmTagLength] >>
  ELSE IF encryptor = NULLPTR THEN << SerializeFileMetaData(metadata) >>
  ELSE << Encrypt(encryptor, SerializeFileMetaData(metadata)) >>

\* FileCryptoMetaData::WriteTo
FileCryptoMetaData_WriteTo(crypto_metadata) ==
  << SerializeToBuffer("FileCryptoMetaData", crypto_metadata, FileCryptoMetaDataBytes) >>

RECURSIVE BufferSize(_)
BufferSize(buf) == IF buf = <<>> THEN 0 ELSE Head(buf).len + BufferSize(Tail(buf))

\* the footer encryptor (encrypted footer) or the footer signing encryptor
\* (plaintext footer) of the file writer: the footer key and the footer AAD
GetFooterEncryptor(file_encryption_properties) ==
  IF file_encryption_properties = NULLPTR THEN NULLPTR
  ELSE Cryptor(FooterKey, CreateFooterAad(file_encryption_properties.file_aad))

\* the footer region the file writer produces: the crypto metadata of an
\* encrypted footer, then the file metadata
WriteFooter(file_encryption_properties, metadata) ==
  (IF file_encryption_properties # NULLPTR /\ file_encryption_properties.encrypted_footer
   THEN FileCryptoMetaData_WriteTo(BuildFileCryptoMetaData(file_encryption_properties))
   ELSE <<>>)
  \o FileMetaData_WriteTo(metadata, GetFooterEncryptor(file_encryption_properties))

\* the bytes of the row group in front of the footer
RowGroupBytes == Cardinality(Columns) * (10 + ColumnChunkBytes)

\* kFooterSize: the footer length (4 bytes) and the magic (4 bytes)
kFooterSize == 8
\* kDefaultFooterReadSize
kDefaultFooterReadSize == 65536

\* the file a writer closes: magic, row group, footer, footer length, magic
WrittenFile(file_encryption_properties, column_encryption_properties, metadata) ==
  [exists |-> TRUE,
   written |-> TRUE,
   altered |-> "",
   size |-> WideOf(MagicLen + RowGroupBytes + BufferSize(WriteFooter(file_encryption_properties, metadata)) + kFooterSize),
   footer |-> WriteFooter(file_encryption_properties, metadata),
   footer_length |-> WideOf(BufferSize(WriteFooter(file_encryption_properties, metadata))),
   magic |-> IF file_encryption_properties # NULLPTR /\ file_encryption_properties.encrypted_footer
             THEN "PARE" ELSE "PAR1",
   file_encryption_properties |-> file_encryption_properties,
   column_encryption_properties |-> column_encryption_properties,
   built |-> metadata]

----------------------------------------------------------------------------
(* SerializedFile: ParseMetaData *)

\* FileDecryptionProperties of the reader: absent, or the keys with the flags,
\* the AAD prefix and the AAD prefix verifier (which accepts the prefix "p")
DecryptionChoices ==
  {NULLPTR} \cup [footer_key : {FooterKey},
                  column_key : {ColumnKey},
                  plaintext_files_allowed : BOOLEAN,
                  check_plaintext_footer_integrity : BOOLEAN,
                  aad_prefix : {"", "p", "q"},
                  aad_prefix_verifier : {NULLPTR, [accepts |-> {"p"}]}]

\* the SerializedFile constructor
SerializedFile_New(file_decryption_properties) ==
  [status |-> "parsing", error |-> "", log |-> <<>>,
   file_decryption_properties |-> file_decryption_properties,
   file_metadata |-> NULLPTR, file_decryptor |-> NULLPTR,
   file_aad |-> <<>>, verified |-> <<>>,
   buffer |-> <<>>, start |-> WideOf(0),
   metadata_len |-> WideOf(0), read_metadata_len |-> WideOf(0),
   writer_version |-> NULLPTR,
   access |-> [op |-> "none"]]

\* an operation of ParseMetaData, added to the log
Log(r, step) == [r EXCEPT !.log = Append(@, step)]

\* throw ParquetException(msg)
Throw(r, msg) == [r EXCEPT !.status = "error", !.error = msg]

\* behaviour the language leaves undefined
Undefined(r, what) == [r EXCEPT !.status = "undefined", !.error = what]

\* the position of the first byte of the footer region the writer produced
FooterStart(f) == WideSub(WideSub(f.size, WideOf(kFooterSize)), WideOf(BufferSize(f.footer)))

\* the structures that lie in the bytes [position, end) of the file, for a
\* position at which a structure of the footer starts; nothing that Thrift
\* can read otherwise (the row group bytes are no footer)
RECURSIVE ItemsFrom(_, _, _, _)
ItemsFrom(items, at, position, end) ==
  IF items = <<>> THEN <<>>
  ELSE IF at = position
       THEN IF WideLe(WideAdd(at, WideOf(Head(items).len)), end)
            THEN <<Head(items)>> \o ItemsFrom(Tail(items), WideAdd(at, WideOf(Head(items).len)), WideAdd(at, WideOf(Head(items).len)), end)
            ELSE <<>>
       ELSE IF WideLt(at, position)
            THEN ItemsFrom(Tail(items), WideAdd(at, WideOf(Head(items).len)), position, end)
            ELSE <<>>

BytesAt(f, position, nbytes) == ItemsFrom(f.footer, FooterStart(f), position, WideAdd(position, nbytes))

\* SliceBuffer(footer_buffer, offset, length): a view of the tail that was read;
\* nothing checks that the view lies inside the buffer
SliceBuffer(r, f, footer_read_size, offset, length) ==
  IF WideLt(offset, WideOf(0)) \/ WideLt(footer_read_size, WideAdd(offset, length))
  THEN Undefined([Log(r, "SliceBuffer") EXCEPT !.start = WideAdd(WideSub(f.size, footer_read_size), offset)],
                 "SliceBuffer outside of footer_buffer")
  ELSE [Log(r, "SliceBuffer") EXCEPT
          !.start = WideAdd(WideSub(f.size, footer_read_size), offset),
          !.buffer = BytesAt(f, WideAdd(WideSub(f.size, footer_read_size), offset), length)]

\* source_->ReadAt(position, nbytes, &buffer) and the test of the buffer's size
ReadAt(r, f, position, nbytes, msg) ==
  IF WideLt(position, WideOf(0)) \/ WideLt(f.size, WideAdd(position, nbytes))
  THEN Throw([Log(r, "ReadAt") EXCEPT !.start = position], msg)
  ELSE [Log(r, "ReadAt") EXCEPT !.start = position, !.buffer = BytesAt(f, position, nbytes)]

\* the footer region: a slice of the tail if the tail holds it, a second read otherwise
ReadFooterRegion(r, f, footer_read_size, len) ==
  IF WideLe(Uint32Add(len, WideOf(kFooterSize)), footer_read_size)
  THEN SliceBuffer(r, f, footer_read_size, WideSub(WideSub(footer_read_size, len), WideOf(kFooterSize)), len)
  ELSE ReadAt(r, f, WideSub(WideSub(f.size, WideOf(kFooterSize)), len), len,
              "Invalid parquet file. Could not read metadata bytes.")

\* kFooterSize + *metadata_len > file_size, the sum being a uint32_t
FooterLengthTooLarge(f) ==
  WideLt(f.size, Uint32Add(WideOf(kFooterSize), f.footer_length))

\* the FileMetaDataImpl constructor: writer_version_
WriterVersion(metadata) ==
  IF metadata.isset_created_by THEN ApplicationVersion_Parse(metadata.created_by)
  ELSE ApplicationVersion_Parse(CreatedBy("unknown 0.0.0", <<>>))

\* FileMetaData::Make(buffer, &len, decryptor)
FileMetaData_Make(r, decryptor) ==
  IF r.status # "parsing" THEN r
  ELSE IF ~DeserializeThriftMsg(r.buffer, "FileMetaData", decryptor).ok
       THEN Throw(Log(r, "FileMetaData::Make"), "Couldn't deserialize thrift")
       ELSE [Log(r, "FileMetaData::Make") EXCEPT
               !.file_metadata = DeserializeThriftMsg(r.buffer, "FileMetaData", decryptor).msg,
               !.writer_version = WriterVersion(DeserializeThriftMsg(r.buffer, "FileMetaData", decryptor).msg),
               !.read_metadata_len = WideOf(DeserializeThriftMsg(r.buffer, "FileMetaData", decryptor).len)]

\* ParseUnencryptedFileMetadata
ParseUnencryptedFileMetadata(r, f, footer_read_size) ==
  IF FooterLengthTooLarge(f)
  THEN Throw(Log(r, "SafeLoadAs"), "Invalid parquet file. File is less than file metadata size.")
  ELSE FileMetaData_Make(ReadFooterRegion([Log(r, "SafeLoadAs") EXCEPT !.metadata_len = f.footer_length],
                                          f, footer_read_size, f.footer_length), NULLPTR)

\* the literal 28 of ParseMetaDataOfEncryptedFileWithPlaintextFooter
SignatureLength == 28

\* AADPrefixVerifier::Verify: called with the prefix, throws if it is not accepted
Verify(r, aad_prefix_verifier, aad_prefix) ==
  IF aad_prefix \in aad_prefix_verifier.accepts
  THEN [Log(r, "Verify") EXCEPT !.verified = Append(@, aad_prefix)]
  ELSE Throw([Log(r, "Verify") EXCEPT !.verified = Append(@, aad_prefix)], "AAD prefix rejected by the verifier")

\* HandleAadPrefix: return aad_prefix + algo.aad.aad_file_unique
ReturnFileAad(r, aad_prefix, algo) ==
  IF r.status # "parsing" THEN r ELSE [r EXCEPT !.file_aad = <<aad_prefix, algo.aad_file_unique>>]

\* a mutant of HandleAadPrefix with the stored prefix: the prefix of the
\* properties is not compared with it
HandleAadPrefixInFile_NoCompare(r, file_decryption_properties, algo) ==
  IF file_decryption_properties.aad_prefix_verifier # NULLPTR
  THEN ReturnFileAad(Verify(r, file_decryption_properties.aad_prefix_verifier, algo.aad_prefix), algo.aad_prefix, algo)
  ELSE ReturnFileAad(r, algo.aad_prefix, algo)

\* HandleAadPrefix: the prefix is stored in the file
HandleAadPrefixInFile(r, file_decryption_properties, algo) ==
  IF file_decryption_properties.aad_prefix # "" /\ file_decryption_properties.aad_prefix # algo.aad_prefix
  THEN Throw(r, "AAD Prefix in file and in properties is not the same")
  ELSE IF file_decryption_properties.aad_prefix_verifier # NULLPTR
       THEN ReturnFileAad(Verify(r, file_decryption_properties.aad_prefix_verifier, algo.aad_prefix), algo.aad_prefix, algo)
       ELSE ReturnFileAad(r, algo.aad_prefix, algo)

\* a mutant of HandleAadPrefix without the stored prefix: the verifier is ignored
HandleAadPrefixNotInFile_NoVerifierTest(r, file_decryption_properties, algo) ==
  IF ~algo.supply_aad_prefix /\ file_decryption_properties.aad_prefix # ""
  THEN Throw(r, "AAD Prefix set in decryption properties, but was not used for file encryption")
  ELSE ReturnFileAad(r, file_decryption_properties.aad_prefix, algo)

\* HandleAadPrefix: the prefix is not stored in the file
HandleAadPrefixNotInFile(r, file_decryption_properties, algo) ==
  IF ~algo.supply_aad_prefix /\ file_decryption_properties.aad_prefix # ""
  THEN Throw(r, "AAD Prefix set in decryption properties, but was not used for file encryption")
  ELSE IF file_decryption_properties.aad_prefix_verifier # NULLPTR
       THEN Throw(r, "AAD Prefix Verifier is set, but AAD Prefix not found in file")
       ELSE ReturnFileAad(r, file_decryption_properties.aad_prefix, algo)

\* SerializedFile::HandleAadPrefix
HandleAadPrefix(r, file_decryption_properties, algo) ==
  IF r.status # "parsing" THEN r
  ELSE IF algo.supply_aad_prefix /\ file_decryption_properties.aad_prefix = ""
       THEN Throw(r, "AAD prefix used for file encryption, but not stored in file and not supplied in decryption properties")
       ELSE IF algo.aad_prefix # ""
            THEN HandleAadPrefixInFile(r, file_decryption_properties, algo)
            ELSE HandleAadPrefixNotInFile(r, file_decryption_properties, algo)

\* file_decryptor_.reset(new InternalFileDecryptor(properties, file_aad, ...))
NewInternalFileDecryptor(r, file_decryption_properties, algorithm) ==
  IF r.status # "parsing" THEN r
  ELSE [Log(r, "InternalFileDecryptor") EXCEPT
          !.file_decryptor = [properties |-> file_decryption_properties, file_aad |-> r.file_aad, algorithm |-> algorithm]]

\* InternalFileDecryptor::GetFooterDecryptor: the footer key with the footer AAD
GetFooterDecryptor(file_decryptor) ==
  Cryptor(file_decryptor.properties.footer_key, CreateFooterAad(file_decryptor.file_aad))

\* FileMetaDataImpl::VerifySignature: the deserialized metadata is serialized
\* again and signed with the nonce of the signature; the tags are compared
VerifySignature(metadata, file_decryptor, signature) ==
  SignedFooterEncrypt(SerializeFileMetaData(metadata),
                      file_decryptor.properties.footer_key,
                      CreateFooterAad(file_decryptor.file_aad),
                      signature[1].nonce) = signature[2].tag

\* ParseMetaDataOfEncryptedFileWithPlaintextFooter: the integrity check
CheckPlaintextFooterIntegrity(r, file_decryption_properties) ==
  IF r.status # "parsing" \/ ~file_decryption_properties.check_plaintext_footer_integrity THEN r
  ELSE IF Uint32Sub(r.metadata_len, r.read_metadata_len) # WideOf(SignatureLength)
       THEN Throw(r, "Invalid parquet file. Cannot verify plaintext mode footer.")
       ELSE IF ~VerifySignature(r.file_metadata, r.file_decryptor, Tail(r.buffer))
            THEN Throw(Log(r, "VerifySignature"), "Invalid parquet file. Could not verify plaintext footer metadata")
            ELSE Log(r, "VerifySignature")

\* ParseMetaDataOfEncryptedFileWithPlaintextFooter
ParseMetaDataOfEncryptedFileWithPlaintextFooter(r, file_decryption_properties) ==
  IF file_decryption_properties = NULLPTR THEN r
  ELSE CheckPlaintextFooterIntegrity(
         NewInternalFileDecryptor(
           HandleAadPrefix(r, file_decryption_properties, r.file_metadata.encryption_algorithm),
           file_decryption_properties,
           r.file_metadata.encryption_algorithm.algorithm),
         file_decryption_properties)

\* a mutant of ParseMetaData: plaintext_files_allowed is not looked at
ParsePlaintextFooter_AlwaysAllowed(r) ==
  IF r.status # "parsing" \/ ~r.file_metadata.isset_encryption_algorithm THEN r
  ELSE ParseMetaDataOfEncryptedFileWithPlaintextFooter(r, r.file_decryption_properties)

\* ParseMetaData, the PAR1 branch after ParseUnencryptedFileMetadata
ParsePlaintextFooter(r) ==
  IF r.status # "parsing" THEN r
  ELSE IF ~r.file_metadata.isset_encryption_algorithm
       THEN IF r.file_decryption_properties # NULLPTR /\ ~r.file_decryption_properties.plaintext_files_allowed
            THEN Throw(r, "Applying decryption properties on plaintext file")
            ELSE r
       ELSE ParseMetaDataOfEncryptedFileWithPlaintextFooter(r, r.file_decryption_properties)

\* FileCryptoMetaData::Make(buffer, &crypto_metadata_len)
FileCryptoMetaData_Make(r) ==
  IF r.status # "parsing" THEN r
  ELSE IF r.file_decryption_properties = NULLPTR
       THEN Throw(r, "No decryption properties are provided. Could not read encrypted footer metadata")
       ELSE IF ~DeserializeThriftUnencryptedMsg(r.buffer, "FileCryptoMetaData").ok
            THEN Throw(Log(r, "FileCryptoMetaData::Make"), "Couldn't deserialize thrift")
            ELSE [Log(r, "FileCryptoMetaData::Make") EXCEPT
                    !.read_metadata_len = WideOf(DeserializeThriftUnencryptedMsg(r.buffer, "FileCryptoMetaData").len)]

\* the FileCryptoMetaData at the front of the footer region
file_crypto_metadata(r) == DeserializeThriftUnencryptedMsg(r.buffer, "FileCryptoMetaData").msg

\* ParseMetaDataOfEncryptedFileWithEncryptedFooter: the decryptor from the
\* crypto metadata
NewFooterDecryptor(r) ==
  IF r.status # "parsing" THEN r
  ELSE NewInternalFileDecryptor(
         HandleAadPrefix(r, r.file_decryption_properties, file_crypto_metadata(r).encryption_algorithm),
         r.file_decryption_properties,
         file_crypto_metadata(r).encryption_algorithm.algorithm)

\* ParseMetaDataOfEncryptedFileWithEncryptedFooter: the encrypted FileMetaData
\* behind the crypto metadata is read and decrypted with the footer decryptor
ReadEncryptedFileMetaData(r, f) ==
  IF r.status # "parsing" THEN r
  ELSE FileMetaData_Make(
         ReadAt(r, f,
                WideAdd(WideSub(WideSub(f.size, WideOf(kFooterSize)), f.footer_length), r.read_metadata_len),
                Uint32Sub(f.footer_length, r.read_metadata_len),
                "Invalid encrypted parquet file. Could not read footer metadata bytes."),
         GetFooterDecryptor(r.file_decryptor))

\* ParseMetaDataOfEncryptedFileWithEncryptedFooter
ParseMetaDataOfEncryptedFileWithEncryptedFooter(r, f, footer_read_size) ==
  IF FooterLengthTooLarge(f)
  THEN Throw(Log(r, "SafeLoadAs"), "Invalid parquet file. File is less than file metadata size.")
  ELSE ReadEncryptedFileMetaData(
         NewFooterDecryptor(
           FileCryptoMetaData_Make(
             ReadFooterRegion([Log(r, "SafeLoadAs") EXCEPT !.metadata_len = f.footer_length],
                              f, footer_read_size, f.footer_length))),
         f)

\* a mutant of ParseMetaData: a tail that does not end in PAR1 is taken for PARE
ParseFooter_NoMagicTest(r, f, footer_read_size) ==
  IF f.magic = "PAR1"
  THEN ParsePlaintextFooter(ParseUnencryptedFileMetadata(Log(Log(r, "ReadAt"), "memcmp"), f, footer_read_size))
  ELSE ParseMetaDataOfEncryptedFileWithEncryptedFooter(Log(Log(r, "ReadAt"), "memcmp"), f, footer_read_size)

\* ParseMetaData: the tail is read and its last 4 bytes are compared with the magics
ParseFooter(r, f, footer_read_size) ==
  IF f.magic # "PAR1" /\ f.magic # "PARE"
  THEN Throw(Log(Log(r, "ReadAt"), "memcmp"), "Invalid parquet file. Corrupt footer.")
  ELSE IF f.magic = "PAR1"
       THEN ParsePlaintextFooter(ParseUnencryptedFileMetadata(Log(Log(r, "ReadAt"), "memcmp"), f, footer_read_size))
       ELSE ParseMetaDataOfEncryptedFileWithEncryptedFooter(Log(Log(r, "ReadAt"), "memcmp"), f, footer_read_size)

\* file_size < kFooterSize
FileTooSmall(f) == WideLt(f.size, WideOf(kFooterSize))

\* ParseMetaData returned
Parsed(r) == IF r.status = "parsing" THEN [r EXCEPT !.status = "ok"] ELSE r

\* SerializedFile::ParseMetaData
ParseMetaData(r, f) ==
  IF f.size = WideOf(0)
  THEN Throw(Log(r, "GetSize"), "Invalid Parquet file size is 0 bytes")
  ELSE IF FileTooSmall(f)
       THEN Throw(Log(r, "GetSize"), "Invalid Parquet file size is smaller than standard file footer")
       ELSE Parsed(ParseFooter(Log(r, "GetSize"), f, WideMin(f.size, WideOf(kDefaultFooterReadSize))))

----------------------------------------------------------------------------
(* ColumnChunkMetaData and SerializedRowGroup::GetColumnPageReader *)

\* InternalFileDecryptor::GetColumnMetaDecryptor: the column key of the
\* properties with the module AAD
GetColumnMetaDecryptor(file_decryptor, aad) == Cryptor(file_decryptor.properties.column_key, aad)

\* the ColumnChunkMetaDataImpl constructor, for a column encrypted with its own
\* key and a decryptor with properties: encrypted_column_metadata is decrypted
DecryptColumnMetaData(column, row_group_ordinal, column_ordinal, file_decryptor) ==
  [column |-> column,
   is_metadata_set |-> DeserializeThriftMsg(column.encrypted_column_metadata, "ColumnMetaData",
                          GetColumnMetaDecryptor(file_decryptor, CreateModuleAad(file_decryptor.file_aad, "ColumnMetaData", row_group_ordinal, column_ordinal))).ok,
   thrown |-> ~DeserializeThriftMsg(column.encrypted_column_metadata, "ColumnMetaData",
                          GetColumnMetaDecryptor(file_decryptor, CreateModuleAad(file_decryptor.file_aad, "ColumnMetaData", row_group_ordinal, column_ordinal))).ok,
   decrypted_metadata |-> DeserializeThriftMsg(column.encrypted_column_metadata, "ColumnMetaData",
                          GetColumnMetaDecryptor(file_decryptor, CreateModuleAad(file_decryptor.file_aad, "ColumnMetaData", row_group_ordinal, column_ordinal))).msg]

\* the ColumnChunkMetaDataImpl constructor
ColumnChunkMetaData_Make(column, row_group_ordinal, column_ordinal, file_decryptor) ==
  IF column.isset_crypto_metadata /\ column.crypto_metadata.isset_ENCRYPTION_WITH_COLUMN_KEY
  THEN IF file_decryptor # NULLPTR /\ file_decryptor.properties # NULLPTR
       THEN DecryptColumnMetaData(column, row_group_ordinal, column_ordinal, file_decryptor)
       ELSE [column |-> column, is_metadata_set |-> FALSE, thrown |-> FALSE, decrypted_metadata |-> NULLPTR]
  ELSE [column |-> column, is_metadata_set |-> TRUE, thrown |-> FALSE, decrypted_metadata |-> NULLPTR]

\* ColumnChunkMetaDataImpl::GetMetadataIfSet
GetMetadataIfSet(col) ==
  IF col.column.isset_crypto_metadata /\ col.column.crypto_metadata.isset_ENCRYPTION_WITH_COLUMN_KEY
  THEN IF ~col.is_metadata_set
       THEN [thrown |-> TRUE, meta_data |-> NULLPTR]
       ELSE [thrown |-> FALSE, meta_data |-> col.decrypted_metadata]
  ELSE [thrown |-> FALSE, meta_data |-> meta_data(col.column)]

\* the ColumnMetaData accessors of ColumnChunkMetaData
Accessors ==
  {"num_values", "data_page_offset", "dictionary_page_offset", "has_dictionary_page",
   "total_compressed_size", "total_uncompressed_size", "encodings", "is_stats_set", "statistics"}

\* what an accessor returns from the ColumnMetaData
AccessorValue(m, name) ==
  CASE name = "has_dictionary_page" -> m.isset_dictionary_page_offset
    [] name = "is_stats_set" -> m.isset_statistics
    [] name = "statistics" -> (IF m.isset_statistics THEN m.statistics ELSE NULLPTR)
    [] OTHER -> m[name]

\* one accessor call: the value, or the exception of GetMetadataIfSet
Accessor(col, name) ==
  IF col.thrown \/ GetMetadataIfSet(col).thrown
  THEN [status |-> "error", value |-> NULLPTR]
  ELSE [status |-> "ok", value |-> AccessorValue(GetMetadataIfSet(col).meta_data, name)]

\* RowGroupMetaData::ColumnChunk(i, row_group_ordinal, file_decryptor)
ColumnChunk(r, i, file_decryptor) ==
  ColumnChunkMetaData_Make(r.file_metadata.row_groups[1].columns[i], 0, i, file_decryptor)

\* GetColumnPageReader: the decryptors of the page reader
OpenPageReader(r, col, i) ==
  IF ~col.column.isset_crypto_metadata
  THEN [status |-> "ok", col_start |-> 0, col_length |-> 0, meta_decryptor |-> NULLPTR, data_decryptor |-> NULLPTR]
  ELSE IF r.file_decryptor = NULLPTR
       THEN [status |-> "undefined", col_start |-> 0, col_length |-> 0, meta_decryptor |-> NULLPTR, data_decryptor |-> NULLPTR]
       ELSE IF col.column.crypto_metadata.isset_ENCRYPTION_WITH_FOOTER_KEY
            THEN [status |-> "ok", col_start |-> 0, col_length |-> 0,
                  meta_decryptor |-> Cryptor(r.file_decryptor.properties.footer_key, r.file_decryptor.file_aad),
                  data_decryptor |-> Cryptor(r.file_decryptor.properties.footer_key, r.file_decryptor.file_aad)]
            ELSE [status |-> "ok", col_start |-> 0, col_length |-> 0,
                  meta_decryptor |-> Cryptor(r.file_decryptor.properties.column_key, r.file_decryptor.file_aad),
                  data_decryptor |-> Cryptor(r.file_decryptor.properties.column_key, r.file_decryptor.file_aad)]

\* GetColumnPageReader: the start of the chunk
ColumnStart(col) ==
  IF Accessor(col, "has_dictionary_page").value
     /\ Accessor(col, "dictionary_page_offset").value > 0
     /\ Accessor(col, "data_page_offset").value > Accessor(col, "dictionary_page_offset").value
  THEN Accessor(col, "dictionary_page_offset").value
  ELSE Accessor(col, "data_page_offset").value

\* kMaxDictHeaderSize
kMaxDictHeaderSize == 100

\* std::min<int64_t>
std_min(a, b) == IF b < a THEN b ELSE a

\* GetColumnPageReader: the PARQUET-816 padding of a chunk of col_length bytes
\* at col_start in a file of size bytes
Padding(col_start, col_length, size) ==
  std_min(kMaxDictHeaderSize, size - (col_start + col_length))

\* GetColumnPageReader: the length of the chunk
ColumnLength(col, version, size) ==
  IF VersionLt(version, PARQUET_816_FIXED_VERSION)
  THEN Accessor(col, "total_compressed_size").value
       + Padding(ColumnStart(col), Accessor(col, "total_compressed_size").value, size)
  ELSE Accessor(col, "total_compressed_size").value

\* SerializedRowGroup::GetColumnPageReader(i) on the file f
GetColumnPageReader(r, f, i) ==
  IF Accessor(ColumnChunk(r, i, r.file_decryptor), "data_page_offset").status = "error"
  THEN [status |-> "error", col_start |-> 0, col_length |-> 0, meta_decryptor |-> NULLPTR, data_decryptor |-> NULLPTR]
  ELSE [OpenPageReader(r, ColumnChunk(r, i, r.file_decryptor), i)
          EXCEPT !.col_start = ColumnStart(ColumnChunk(r, i, r.file_decryptor)),
                 !.col_length = ColumnLength(ColumnChunk(r, i, r.file_decryptor),
                                             r.writer_version, Small(f.size))]

----------------------------------------------------------------------------
(* Files on disk, and the calls on the file reader *)

\* 2^32 - n as a uint32_t
Uint32Max(n) == Wide(Limb - 1, Limb - n)

\* files that no writer of this library closed: any size, any footer length,
\* any magic, and no footer that Thrift can read
CraftedFileSizes == {WideOf(0), WideOf(4), WideOf(kFooterSize), WideOf(12), WideOf(70000)}
CraftedFooterLengths == {WideOf(0), WideOf(4), WideOf(5), WideOf(kDefaultFooterReadSize), Uint32Max(8), Uint32Max(4), Uint32Max(1)}
CraftedMagics == {"PAR1", "PARE", "ABCD"}

CraftedFiles ==
  { [exists |-> TRUE, written |-> FALSE, altered |-> "", size |-> size, footer |-> <<>>,
     footer_length |-> len, magic |-> magic,
     file_encryption_properties |-> NULLPTR,
     column_encryption_properties |-> [i \in Columns |-> NULLPTR],
     built |-> NULLPTR] :
      size \in CraftedFileSizes, len \in CraftedFooterLengths, magic \in CraftedMagics }

\* created_by of files of other writers: parquet-mr before and after the fix
\* of PARQUET-816, in another case, with a version that is not
\* major.minor.patch, another application, and no created_by at all
LegacyCreatedBy ==
  {CreatedBy("parquet-mr", <<1, 2, 8>>), CreatedBy("parquet-mr", <<1, 2, 9>>),
   CreatedBy("Parquet-MR", <<1, 1, 9>>), CreatedBy("parquet-mr", <<1, 2>>),
   CreatedBy("impala", <<1, 2, 8>>), NULLPTR}

\* the chunk positions and sizes found in the metadata of such files, and the
\* sizes of the files
LegacyColumnStarts == {6, 40}
LegacyCompressedSizes == {10, 200}
LegacyFileSizes == {48, 300}

\* the footer of a file of another writer
LegacyMetaData(created_by, col_start, compressed_size) ==
  [FileMetaDataBuilder_Finish(NULLPTR, BuildRowGroup(NULLPTR, [i \in Columns |-> NULLPTR]))
     EXCEPT !.isset_created_by = (created_by # NULLPTR),
            !.created_by = IF created_by # NULLPTR THEN created_by ELSE CreatedBy("", <<>>),
            !.row_groups[1].columns[0].isset_dictionary_page_offset = FALSE,
            !.row_groups[1].columns[0].dictionary_page_offset = 0,
            !.row_groups[1].columns[0].data_page_offset = col_start,
            !.row_groups[1].columns[0].total_compressed_size = compressed_size]

\* files of other writers: a plaintext footer that Thrift can read
LegacyFiles ==
  { [WrittenFile(NULLPTR, [i \in Columns |-> NULLPTR], LegacyMetaData(created_by, col_start, compressed_size))
       EXCEPT !.written = FALSE, !.size = WideOf(size)] :
      created_by \in LegacyCreatedBy, col_start \in LegacyColumnStarts,
      compressed_size \in LegacyCompressedSizes, size \in LegacyFileSizes }

\* the ways the model changes a signed footer after it was written
Alterations == {"tag", "nonce", "num_rows", "wire", "append", "truncate", "magic"}

\* one byte more, or the signature less, in the footer region
Resized(f, footer, delta) ==
  [f EXCEPT !.footer = footer,
            !.size = WideOf(Small(f.size) + delta),
            !.footer_length = WideOf(Small(f.footer_length) + delta)]

\* a signed footer with a change
Altered(f, how) ==
  CASE how = "tag" -> [f EXCEPT !.altered = how, !.footer[3].tag.flipped = TRUE]
    [] how = "nonce" -> [f EXCEPT !.altered = how, !.footer[2].nonce = OtherNonce]
    [] how = "num_rows" -> [f EXCEPT !.altered = how, !.footer[1].obj.num_rows = @ + 1]
    [] how = "wire" -> [f EXCEPT !.altered = how, !.footer[1].wire = 1]
    [] how = "append" -> Resized([f EXCEPT !.altered = how], Append(f.footer, [kind |-> "bytes", len |-> 1]), 1)
    [] how = "magic" -> [f EXCEPT !.altered = how, !.magic = "ABCD"]
    [] how = "truncate" -> Resized([f EXCEPT !.altered = how], <<f.footer[1]>>, 0 - SignatureLength)

\* the writer of the model's files (the column writers are not used)
ReaderInit ==
  /\ props = CHOOSE p \in PropsChoices : TRUE
  /\ cw = ColumnWriter_Make(props)
  /\ pw = SerializedPageWriter_New
  /\ out = EmptySink(props.sink_start)
  /\ fin = EmptySink(0)
  /\ md = ColumnChunk_New
  /\ h = NoCalls
  /\ file = NoFile
  /\ rd = NoReader
  /\ rg = NoRowGroup
  /\ mb = NoBuilder
  /\ st = NoStatistics
  /\ ep = NoPageWriter

\* a file writer closes a file
WriteFile ==
  /\ ~file.exists
  /\ \E file_encryption_properties \in FileEncryptionChoices :
       \E column_encryption_properties \in [Columns -> ColumnEncryptionChoices] :
          /\ file_encryption_properties = NULLPTR =>
               \A i \in Columns : column_encryption_properties[i] = NULLPTR
          /\ file' = WrittenFile(file_encryption_properties, column_encryption_properties,
                                 FileMetaDataBuilder_Finish(file_encryption_properties,
                                    BuildRowGroup(file_encryption_properties, column_encryption_properties)))
  /\ UNCHANGED <<props, cw, pw, out, fin, md, h, rd, rg, mb, st, ep>>

\* some other file is on disk
CraftFile ==
  /\ ~file.exists
  /\ file' \in CraftedFiles
  /\ UNCHANGED <<props, cw, pw, out, fin, md, h, rd, rg, mb, st, ep>>

\* a file of another writer is on disk
CraftLegacyFile ==
  /\ ~file.exists
  /\ file' \in LegacyFiles
  /\ UNCHANGED <<props, cw, pw, out, fin, md, h, rd, rg, mb, st, ep>>

\* a signed footer is changed before the file is opened
AlterFooter ==
  /\ file.exists /\ file.written /\ file.altered = ""
  /\ file.built.isset_encryption_algorithm
  /\ rd = NoReader
  /\ \E how \in Alterations : file' = Altered(file, how)
  /\ UNCHANGED <<props, cw, pw, out, fin, md, h, rd, rg, mb, st, ep>>

\* what a caller may observe of a ParseMetaData call: undefined behaviour ends
\* in a crash, in an exception or in metadata read from foreign bytes
Outcomes(r) ==
  IF r.status = "undefined"
  THEN {[r EXCEPT !.error = e] : e \in {"crash", "exception", "foreign metadata"}}
  ELSE {r}

\* ParquetFileReader::Open: the SerializedFile is constructed and ParseMetaData runs
Open ==
  /\ file.exists
  /\ rd = NoReader
  /\ \E file_decryption_properties \in DecryptionChoices :
       rd' \in Outcomes(ParseMetaData(SerializedFile_New(file_decryption_properties), file))
  /\ UNCHANGED <<props, cw, pw, out, fin, md, h, file, rg, mb, st, ep>>

\* an InternalFileDecryptor whose properties() is null
DecryptorWithoutProperties == [properties |-> NULLPTR, file_aad |-> <<"", "u">>, algorithm |-> "AES_GCM_V1"]

\* RowGroupMetaData::ColumnChunk(i, ordinal, file_decryptor) and every
\* ColumnMetaData accessor of the chunk
CallColumnChunk ==
  /\ rd.status = "ok"
  /\ \E i \in Columns :
       \E file_decryptor \in {NULLPTR, rd.file_decryptor, DecryptorWithoutProperties} :
          rd' = [rd EXCEPT !.access =
                   [op |-> "ColumnChunk", column |-> i, file_decryptor |-> file_decryptor,
                    results |-> [name \in Accessors |-> Accessor(ColumnChunk(rd, i, file_decryptor), name)]]]
  /\ UNCHANGED <<props, cw, pw, out, fin, md, h, file, rg, mb, st, ep>>

\* RowGroupReader::GetColumnPageReader(i)
CallGetColumnPageReader ==
  /\ rd.status = "ok"
  /\ \E i \in Columns :
       rd' = [rd EXCEPT !.access =
                [op |-> "GetColumnPageReader", column |-> i,
                 result |-> GetColumnPageReader(rd, file, i)]]
  /\ UNCHANGED <<props, cw, pw, out, fin, md, h, file, rg, mb, st, ep>>

ReaderNext == WriteFile \/ CraftFile \/ CraftLegacyFile \/ AlterFooter \/ Open \/ CallColumnChunk \/ CallGetColumnPageReader

ReaderSpec == ReaderInit /\ [][ReaderNext]_vars

----------------------------------------------------------------------------
(* Claims about the file reader *)

\* ParseMetaData was called
Opened == rd.status # "none"

\* ParseMetaData did this operation
Logged(step) == \E k \in 1..Len(rd.log) : rd.log[k] = step

\* the footer length of the file, with the 8 bytes behind it, exceeds the file
FooterExceedsFile == WideLt(file.size, WideAdd(file.footer_length, WideOf(kFooterSize)))

\* C12: for every file size and every 32-bit footer length, on the PAR1 and on
\* the PARE path, ParseMetaData rejects the file whenever footer_length + 8 >
\* file_size, so that no footer region that starts before byte 0 of the file is
\* sliced or read; also for footer lengths within 8 of 2^32.
C12_FooterLengthChecked ==
  (Opened /\ ~FileTooSmall(file) /\ file.magic \in {"PAR1", "PARE"} /\ FooterExceedsFile)
  => /\ rd.status = "error"
     /\ rd.error = "Invalid parquet file. File is less than file metadata size."
     /\ ~Logged("SliceBuffer")
     /\ ~WideLt(rd.start, WideOf(0))

\* C13: a file of at least 8 bytes whose last 4 bytes are neither PAR1 nor PARE
\* is rejected as a corrupt footer before the footer length is interpreted and
\* before any metadata is deserialized; no FileMetaData is exposed for it.
C13_CorruptFooterRejected ==
  (Opened /\ ~FileTooSmall(file) /\ file.magic \notin {"PAR1", "PARE"})
  => /\ rd.status = "error"
     /\ rd.error = "Invalid parquet file. Corrupt footer."
     /\ rd.log = <<"GetSize", "ReadAt", "memcmp">>
     /\ rd.file_metadata = NULLPTR
     /\ rd.file_decryptor = NULLPTR

\* a closed file with a readable, signed footer whose trailing magic was
\* overwritten, opened by a reader that holds the keys
C13_Witness ==
  /\ Opened
  /\ file.written /\ file.altered = "magic"
  /\ file.magic = "ABCD"
  /\ rd.file_decryption_properties # NULLPTR
  /\ rd.status = "error"

\* C14: a file exactly 8 bytes long is rejected as too small by the size check
\* of ParseMetaData, before its magic or its footer length is examined, like
\* the files shorter than 8 bytes.
C14_EightByteFileTooSmall ==
  (Opened /\ file.size = WideOf(kFooterSize))
  => /\ rd.status = "error"
     /\ rd.log = <<"GetSize">>

\* the file has no encryption algorithm in its (plaintext) footer
IsPlaintextFile ==
  file.exists /\ file.written /\ file.altered = "" /\ file.magic = "PAR1"
  /\ ~file.built.isset_encryption_algorithm

\* C15: a PAR1 file whose footer sets no encryption algorithm is rejected if
\* and only if decryption properties are supplied and their
\* plaintext_files_allowed is false; in every other case it opens, and no file
\* decryptor is created.
C15_PlaintextFileWithDecryptionProperties ==
  (Opened /\ IsPlaintextFile)
  => /\ rd.status \in {"ok", "error"}
     /\ (rd.status = "error") <=> (/\ rd.file_decryption_properties # NULLPTR
                                   /\ ~rd.file_decryption_properties.plaintext_files_allowed)
     /\ rd.status = "error" => rd.error = "Applying decryption properties on plaintext file"
     /\ rd.file_decryptor = NULLPTR
     /\ ~Logged("InternalFileDecryptor")

\* an unencrypted file refused because of the decryption properties
C15_Witness ==
  /\ Opened /\ IsPlaintextFile
  /\ rd.file_decryption_properties # NULLPTR
  /\ ~rd.file_decryption_properties.plaintext_files_allowed
  /\ rd.status = "error"
  /\ Logged("FileMetaData::Make")

\* the file has a plaintext footer with a signing algorithm, and was opened by
\* a reader that verifies the footer and got as far as the file decryptor
SignedFooterChecked ==
  /\ Opened
  /\ file.written /\ file.magic = "PAR1"
  /\ file.built.isset_encryption_algorithm
  /\ rd.file_decryption_properties # NULLPTR
  /\ rd.file_decryption_properties.check_plaintext_footer_integrity
  /\ rd.file_decryptor # NULLPTR

\* the bytes of the footer region behind the serialized FileMetaData
SignatureBytes == BufferSize(Tail(file.footer))

\* the tag in the file is the tag of the footer bytes in the file, signed with
\* the footer key, the reader's footer AAD and the nonce in the file
TagOfFooterInFile ==
  /\ Len(file.footer) = 3
  /\ file.footer[3].tag = SignedFooterEncrypt(file.footer[1], rd.file_decryption_properties.footer_key,
                                              CreateFooterAad(rd.file_decryptor.file_aad),
                                              file.footer[2].nonce)

\* C16: a plaintext-footer encrypted file opened with
\* check_plaintext_footer_integrity is accepted if and only if exactly 28 bytes
\* follow the deserialized FileMetaData in the footer region and the tag among
\* them is the tag of a fresh signing of the footer under the footer key and
\* the nonce of the file; a footer region of which a byte was altered after
\* the signing is rejected.
C16_FooterSignatureVerified ==
  SignedFooterChecked
  => /\ (rd.status = "ok") <=> (SignatureBytes = SignatureLength /\ TagOfFooterInFile)
     /\ file.altered \in {"tag", "nonce", "num_rows", "wire"} => rd.status = "error"

\* the file was encrypted with an AAD prefix, and a reader with an AAD prefix
\* verifier opened it and reached HandleAadPrefix
VerifierConfigured ==
  /\ Opened
  /\ file.written /\ file.altered = ""
  /\ file.file_encryption_properties # NULLPTR
  /\ file.file_encryption_properties.file_aad[1] # ""
  /\ rd.file_decryption_properties # NULLPTR
  /\ rd.file_decryption_properties.aad_prefix_verifier # NULLPTR

\* the prefix is stored in the file
PrefixStored == file.file_encryption_properties.algorithm.aad_prefix # ""

\* the prefix is not stored in the file and the decryption properties supply one
PrefixSupplied ==
  /\ file.file_encryption_properties.algorithm.supply_aad_prefix
  /\ rd.file_decryption_properties.aad_prefix # ""

\* the prefix of which the file AAD is built
ResolvedPrefix ==
  IF PrefixStored THEN file.file_encryption_properties.algorithm.aad_prefix
  ELSE rd.file_decryption_properties.aad_prefix

\* the verifier was called once, with the prefix, and no file decryptor was
\* created before the call
VerifiedBeforeDecryptor(prefix) ==
  /\ rd.verified = <<prefix>>
  /\ \A j, k \in 1..Len(rd.log) :
       (rd.log[j] = "InternalFileDecryptor" /\ rd.log[k] = "Verify") => k < j

\* the decryption properties do not contradict the stored prefix
PrefixAgrees ==
  rd.file_decryption_properties.aad_prefix \in {"", file.file_encryption_properties.algorithm.aad_prefix}

\* C17 (as stated): with an aad_prefix_verifier configured and a file encrypted
\* with an AAD prefix, the verifier is invoked with the resolved prefix before
\* the file decryptor is created, when the prefix is stored in the file and
\* when it is not stored and supplied through the decryption properties.
C17_VerifierInvoked ==
  (VerifierConfigured /\ ((PrefixStored /\ PrefixAgrees) \/ PrefixSupplied))
  => VerifiedBeforeDecryptor(ResolvedPrefix)

\* C17 (amended): with a verifier configured, a prefix stored in the file and
\* not contradicted by the properties is handed to the verifier before the file
\* decryptor is created; a prefix that is not stored but supplied is never
\* handed to the verifier: the file is rejected and no decryptor is created.
C17_VerifierInvokedOnStoredPrefix ==
  /\ (VerifierConfigured /\ PrefixStored /\ PrefixAgrees)
     => /\ VerifiedBeforeDecryptor(ResolvedPrefix)
        /\ Logged("InternalFileDecryptor")
  /\ (VerifierConfigured /\ PrefixSupplied /\ ~PrefixStored)
     => /\ rd.verified = <<>>
        /\ rd.status = "error"
        /\ rd.error = "AAD Prefix Verifier is set, but AAD Prefix not found in file"
        /\ rd.file_decryptor = NULLPTR

\* an encrypted-footer file with a stored prefix, verified and opened
C17_Witness ==
  /\ VerifierConfigured /\ PrefixStored
  /\ file.magic = "PARE"
  /\ rd.verified = <<"p">>
  /\ rd.file_decryptor # NULLPTR
  /\ rd.status = "ok"

\* the writer of the file encrypts the footer
EncryptedFooter ==
  file.file_encryption_properties # NULLPTR /\ file.file_encryption_properties.encrypted_footer

\* the rule: the column is encrypted, and the footer is plaintext or the column
\* has its own key
SeparateColumnMetaData(column_encryption_properties) ==
  /\ column_encryption_properties # NULLPTR
  /\ column_encryption_properties.is_encrypted
  /\ (~EncryptedFooter \/ ~column_encryption_properties.is_encrypted_with_footer_key)

\* C18: Encryptor.EncryptColumnMetaData and the decision inside
\* ColumnChunkMetaDataBuilder.Finish agree: the ColumnMetaData is encrypted
\* separately exactly when the column is encrypted and (the footer is plaintext
\* or the column uses its own key), for all eight combinations of the three
\* flags and for absent column properties.
C18_EncryptColumnMetaDataAgrees ==
  (file.exists /\ file.written)
  => \A i \in Columns :
       /\ file.built.row_groups[1].columns[i].isset_encrypted_column_metadata
            = EncryptColumnMetaData(EncryptedFooter, file.column_encryption_properties[i])
       /\ EncryptColumnMetaData(EncryptedFooter, file.column_encryption_properties[i])
            = SeparateColumnMetaData(file.column_encryption_properties[i])

\* an encrypted-footer file with a footer-key column, whose metadata stays in
\* the footer, and a column with its own key, whose metadata is encrypted apart
C18_Witness ==
  /\ file.exists /\ file.written
  /\ EncryptedFooter
  /\ file.column_encryption_properties[0] # NULLPTR
  /\ file.column_encryption_properties[0].is_encrypted
  /\ file.column_encryption_properties[0].is_encrypted_with_footer_key
  /\ ~file.built.row_groups[1].columns[0].isset_encrypted_column_metadata
  /\ file.column_encryption_properties[1] # NULLPTR
  /\ file.column_encryption_properties[1].is_encrypted
  /\ ~file.column_encryption_properties[1].is_encrypted_with_footer_key
  /\ file.built.row_groups[1].columns[1].isset_encrypted_column_metadata

\* a written, unchanged file was opened
OpenedIntact == rd.status = "ok" /\ file.written /\ file.altered = ""

\* column i of the opened file is encrypted with its own key
ColumnKeyColumn(i) ==
  /\ rd.file_metadata.row_groups[1].columns[i].isset_crypto_metadata
  /\ rd.file_metadata.row_groups[1].columns[i].crypto_metadata.isset_ENCRYPTION_WITH_COLUMN_KEY

\* no file decryptor, or one without decryption properties
CannotDecrypt(file_decryptor) == file_decryptor = NULLPTR \/ file_decryptor.properties = NULLPTR

\* C19: when the reader cannot decrypt the metadata of a column encrypted with
\* its own key (no file decryptor, or no decryption properties), every
\* ColumnMetaData accessor of that chunk and GetColumnPageReader for it fail
\* with an error, while the accessors and the page readers of the unencrypted
\* and of the footer-key columns of the same row group succeed.
C19_UndecryptableColumnFails ==
  (OpenedIntact /\ \E j \in Columns : ColumnKeyColumn(j))
  => /\ (rd.access.op = "ColumnChunk" /\ CannotDecrypt(rd.access.file_decryptor))
        => \A name \in Accessors :
             rd.access.results[name].status =
               (IF ColumnKeyColumn(rd.access.column) THEN "error" ELSE "ok")
     /\ (rd.access.op = "GetColumnPageReader" /\ CannotDecrypt(rd.file_decryptor))
        => rd.access.result.status =
             (IF ColumnKeyColumn(rd.access.column) THEN "error" ELSE "ok")

\* the reader holds every key of the file, and builds the file AAD the writer
\* built
HoldsEveryKey ==
  file.file_encryption_properties # NULLPTR
  => /\ rd.file_decryption_properties # NULLPTR
     /\ rd.file_aad = file.file_encryption_properties.file_aad

\* what the column builder of column i was finished with
FinishedWith(i) == meta_data(FinishedColumnChunk(ColumnInputs(i)).md)

\* C20: footer round trip: the FileMetaData of FileMetaDataBuilder.Finish,
\* written with WriteTo and parsed back by a reader that holds every key,
\* exposes the same num_rows, version and row groups and, for every column
\* chunk, the num_values, offsets, sizes, encodings and statistics the column
\* builder was finished with; for unencrypted, plaintext-footer and
\* encrypted-footer files, for footer-key and column-key columns.
C20_FooterRoundTrip ==
  (OpenedIntact /\ HoldsEveryKey)
  => /\ rd.file_metadata.num_rows = file.built.num_rows
     /\ rd.file_metadata.version = file.built.version
     /\ Len(rd.file_metadata.row_groups) = Len(file.built.row_groups)
     /\ rd.file_metadata.row_groups[1].num_rows = file.built.row_groups[1].num_rows
     /\ (rd.access.op = "ColumnChunk" /\ rd.access.file_decryptor = rd.file_decryptor)
        => \A name \in Accessors :
             rd.access.results[name] =
               [status |-> "ok", value |-> AccessorValue(FinishedWith(rd.access.column), name)]

----------------------------------------------------------------------------
(* Claims about the byte range of a chunk *)

\* the ColumnChunkMetaData a reader makes of the chunk's format::ColumnChunk
\* (row group 0, column 0, no decryptor)
ReadBack(column) == ColumnChunkMetaData_Make(WrittenColumnChunk(column), 0, 0, NULLPTR)

\* where the pages of the chunk start and end in the file
ChunkStartInFile == Head(PagesOf(FileSink)).offset
ChunkEndInFile ==
  LET last == PagesOf(FileSink)[Len(PagesOf(FileSink))]
  IN last.offset + last.header_size + last.compressed_page_size

BeforeParquet816 ==
  /\ rd.writer_version.application = "parquet-mr"
  /\ \/ rd.writer_version.major < 1
     \/ rd.writer_version.major = 1 /\ rd.writer_version.minor < 2
     \/ rd.writer_version.major = 1 /\ rd.writer_version.minor = 2 /\ rd.writer_version.patch < 9

\* the page reader of a column was opened
PageReaderOpened ==
  rd.status = "ok" /\ rd.access.op = "GetColumnPageReader" /\ rd.access.result.status = "ok"

\* total_compressed_size of the column of the last GetColumnPageReader call
TotalCompressedSize ==
  Accessor(ColumnChunk(rd, rd.access.column, rd.file_decryptor), "total_compressed_size").value

\* C22: the legacy padding of GetColumnPageReader is applied only when the
\* writer version is parquet-mr below 1.2.9, and is then between 0 and 100
\* bytes: col_length is never smaller than total_compressed_size and the slice
\* never extends past the end of the file, for every col_start,
\* total_compressed_size and file size.
C22_LegacyPadding ==
  PageReaderOpened
  => /\ ~BeforeParquet816 => rd.access.result.col_length = TotalCompressedSize
     /\ BeforeParquet816 =>
          /\ rd.access.result.col_length - TotalCompressedSize \in 0..kMaxDictHeaderSize
          /\ rd.access.result.col_start + rd.access.result.col_length <= Small(file.size)

----------------------------------------------------------------------------
(* Claims about the BufferedPageWriter *)

\* the bytes of one item of a sink
ItemBytes(item) == item.header_size + item.compressed_page_size

\* the items lie one after the other from position start to position end
Contiguous(items, start, end) ==
  /\ items # <<>> => items[1].offset = start
  /\ \A i \in 1..(Len(items) - 1) : items[i + 1].offset = items[i].offset + ItemBytes(items[i])
  /\ end = IF items = <<>> THEN start
           ELSE items[Len(items)].offset + ItemBytes(items[Len(items)])

\* pages, then the chunk's ColumnChunk
PagesThenColumnChunk(items) ==
  /\ items # <<>>
  /\ items[Len(items)].type = "COLUMN_CHUNK"
  /\ \A i \in 1..(Len(items) - 1) : IsPage(items[i])

\* the step in which the PageWriter is closed
PagerCloses == h'.pager_close_calls = h.pager_close_calls + 1

\* C23: a BufferedPageWriter leaves the final sink unchanged during every
\* WriteDictionaryPage and WriteDataPage call; its Close appends the chunk's
\* pages followed by the chunk's column metadata to the final sink in exactly
\* one write, so the chunk is contiguous in the file.
C23_BufferedUntilClose ==
  [][props.buffered =>
       IF PagerCloses
       THEN /\ fin'.writes = fin.writes + 1
            /\ PagesThenColumnChunk(fin'.items)
            /\ Len(PagesOf(fin')) = h'.pages_assembled + h'.dictionary_page_calls
            /\ Contiguous(fin'.items, fin.pos, fin'.pos)
       ELSE fin' = fin]_vars

\* a buffered chunk of a dictionary page and two data pages is in the final
\* sink after its Close, in one write
C23_Witness ==
  /\ props.buffered
  /\ ChunkClosed
  /\ fin.writes = 1
  /\ Len(DictionaryPagesOf(fin)) = 1
  /\ Len(DataPagesOf(fin)) >= 2

----------------------------------------------------------------------------
(* The column writers of one row group, buffered, on one final sink *)

\* the writer properties of the row group: buffered PageWriters over required
\* leaves; each column has its own dictionary setting
RowGroupProps ==
  { p \in PropsChoices :
      /\ p.buffered /\ p.dictionary_enabled /\ ~p.codec
      /\ p.descr = [D |-> 0, R |-> 0, optional |-> FALSE]
      /\ p.data_pagesize = 2 /\ p.write_batch_size = 2 }

\* ColumnWriter::Make over a BufferedPageWriter for one column: the writer
\* with its own in-memory sink and its own ColumnChunkMetaDataBuilder
ColumnWriterOf(p, dictionary_enabled) ==
  [cw |-> ColumnWriter_Make([p EXCEPT !.dictionary_enabled = dictionary_enabled]),
   pw |-> SerializedPageWriter_New,
   out |-> EmptySink(0),
   fin |-> EmptySink(p.sink_start),
   md |-> ColumnChunk_New,
   h |-> NoCalls, ret |-> 0, num_spaced_written |-> 0]

\* the row group writer in buffered mode hands out every column writer at once
NewRowGroup(p, dictionary_enabled) ==
  [exists |-> TRUE,
   writers |-> [i \in Columns |-> ColumnWriterOf(p, dictionary_enabled[i])],
   sink |-> EmptySink(p.sink_start),
   chunks |-> <<>>]

RowGroupInit ==
  /\ props \in RowGroupProps
  /\ cw = ColumnWriter_Make(props)
  /\ pw = SerializedPageWriter_New
  /\ out = EmptySink(0)
  /\ fin = EmptySink(props.sink_start)
  /\ md = ColumnChunk_New
  /\ h = NoCalls
  /\ file = NoFile
  /\ rd = NoReader
  /\ rg \in {NewRowGroup(props, dictionary_enabled) : dictionary_enabled \in [Columns -> BOOLEAN]}
  /\ mb = NoBuilder
  /\ st = NoStatistics
  /\ ep = NoPageWriter

\* WriteBatch on the writer of one column, in any order across the columns
RowGroupWriteBatch ==
  /\ \E i \in Columns :
       \E n \in 1..MaxBatch :
          /\ ~rg.writers[i].cw.closed
          /\ rg.writers[i].h.levels + n <= MaxRowGroupLevels
          /\ \E batch \in Batches(n) :
               \E t \in {WriteBatch(rg.writers[i], n, DefLevels(batch), RepLevels(batch), DenseValues(batch))} :
                  rg' = [rg EXCEPT !.writers[i] = [t EXCEPT !.h.levels = @ + n]]
  /\ UNCHANGED <<props, cw, pw, out, fin, md, h, file, rd, mb, st, ep>>

\* Close on the writer of one column: the Close calls run one at a time, each
\* on the final sink as the Close before it left it
RowGroupClose ==
  /\ \E i \in Columns :
       /\ ~rg.writers[i].cw.closed
       /\ \E t \in {Close([rg.writers[i] EXCEPT !.fin = rg.sink])} :
            rg' = [rg EXCEPT
                     !.writers[i] = t,
                     !.sink = t.fin,
                     !.chunks = Append(@, [column |-> i, start |-> rg.sink.pos, end |-> t.fin.pos,
                                           items |-> SubSeq(t.fin.items, Len(rg.sink.items) + 1, Len(t.fin.items))])]
  /\ UNCHANGED <<props, cw, pw, out, fin, md, h, file, rd, mb, st, ep>>

RowGroupNext == RowGroupWriteBatch \/ RowGroupClose

RowGroupSpec == RowGroupInit /\ [][RowGroupNext]_vars

\* the offset of the first item of a kind among the items of a chunk
FirstOffset(items, kind) ==
  items[CHOOSE i \in 1..Len(items) :
          /\ items[i].type = kind
          /\ \A j \in 1..(i - 1) : items[j].type # kind].offset

HasItem(items, kind) == \E i \in 1..Len(items) : items[i].type = kind

\* the chunks lie in the final sink one after the other, in Close order
ChunksInCloseOrder ==
  /\ \A k \in 1..Len(rg.chunks) :
       /\ Contiguous(rg.chunks[k].items, rg.chunks[k].start, rg.chunks[k].end)
       /\ PagesThenColumnChunk(rg.chunks[k].items)
       /\ rg.chunks[k].start = IF k = 1 THEN props.sink_start ELSE rg.chunks[k - 1].end
  /\ Len(rg.sink.items) = 0 \/ Len(rg.chunks) > 0

\* the offsets in the metadata of a chunk are those of its own first pages
OffsetsOfOwnPages(chunk) ==
  /\ HasItem(chunk.items, "DICTIONARY_PAGE")
       => /\ rg.writers[chunk.column].md.isset_dictionary_page_offset
          /\ rg.writers[chunk.column].md.dictionary_page_offset = FirstOffset(chunk.items, "DICTIONARY_PAGE")
  /\ HasItem(chunk.items, "DATA_PAGE")
       => rg.writers[chunk.column].md.data_page_offset = FirstOffset(chunk.items, "DATA_PAGE")

\* C24: with buffered PageWriters, for every interleaving of the WriteBatch
\* calls of the column writers of a row group and with the Close calls one at
\* a time, each chunk is one contiguous range of the final sink, the ranges
\* are in Close order without overlap, and the dictionary_page_offset and
\* data_page_offset of each chunk point at its own first dictionary page and
\* first data page.
C24_InterleavedBufferedChunks ==
  rg.exists =>
    /\ ChunksInCloseOrder
    /\ \A k \in 1..Len(rg.chunks) : OffsetsOfOwnPages(rg.chunks[k])

----------------------------------------------------------------------------
(* The metadata builders of a file: FileMetaDataBuilder, RowGroupMetaDataBuilder,
   ColumnChunkMetaDataBuilder with the PageWriter that finishes it *)

\* the Encryptor a PageWriter holds for the metadata of its column
Encryptor(key, file_aad, aad) == [key |-> key, file_aad |-> file_aad, aad |-> aad]

\* Encryptor::UpdateAad
UpdateAad(encryptor, aad) == [encryptor EXCEPT !.aad = aad]

\* the SerializedPageWriter constructor: the meta encryptor as the row group
\* writer got it from the file encryptor (the footer key or the column's own
\* key); the writes of the pages leave it with the AAD of a page header
MetaEncryptor(file_encryption_properties, encrypt_md, row_group_ordinal, column_ordinal) ==
  IF file_encryption_properties = NULLPTR \/ encrypt_md = NULLPTR \/ ~encrypt_md.is_encrypted
  THEN NULLPTR
  ELSE Encryptor(IF encrypt_md.is_encrypted_with_footer_key THEN FooterKey ELSE encrypt_md.key_metadata,
                 file_encryption_properties.file_aad,
                 CreateModuleAad(file_encryption_properties.file_aad, "DataPageHeader", row_group_ordinal, column_ordinal))

\* SerializedPageWriter::UpdateEncryption(encryption::kColumnMetaData)
UpdateEncryption_kColumnMetaData(meta_encryptor, row_group_ordinal, column_ordinal) ==
  UpdateAad(meta_encryptor, CreateModuleAad(meta_encryptor.file_aad, "ColumnMetaData", row_group_ordinal, column_ordinal))

\* SerializedPageWriter::Close: the encryptor it hands to Finish
SerializedPageWriter_CloseEncryptor(meta_encryptor, row_group_ordinal, column_ordinal) ==
  IF meta_encryptor # NULLPTR
  THEN UpdateEncryption_kColumnMetaData(meta_encryptor, row_group_ordinal, column_ordinal)
  ELSE meta_encryptor

\* BufferedPageWriter::Close: Finish is called without its last argument, which
\* defaults to NULLPTR; the meta encryptor stays with pager_
BufferedPageWriter_CloseEncryptor(meta_encryptor, row_group_ordinal, column_ordinal) == NULLPTR

\* PageWriter::Close: the encryptor that reaches ColumnChunkMetaDataBuilder::Finish
PageWriter_CloseEncryptor(buffered, meta_encryptor, row_group_ordinal, column_ordinal) ==
  IF buffered THEN BufferedPageWriter_CloseEncryptor(meta_encryptor, row_group_ordinal, column_ordinal)
  ELSE SerializedPageWriter_CloseEncryptor(meta_encryptor, row_group_ordinal, column_ordinal)

\* ColumnChunkMetaDataBuilderImpl::Finish dereferences its encryptor when the
\* ColumnMetaData is encrypted separately
FinishDereferencesNull(encrypt_md, encrypted_footer, encryptor) ==
  /\ encrypt_md # NULLPTR /\ encrypt_md.is_encrypted
  /\ ~encrypted_footer \/ ~encrypt_md.is_encrypted_with_footer_key
  /\ encryptor = NULLPTR

\* what the PageWriter of column i counted when it is closed
PagerTotals(row_group_ordinal, i, has_dictionary) ==
  [num_values |-> i + 1,
   dictionary_page_offset |-> IF has_dictionary THEN MagicLen + 40 * row_group_ordinal + 20 * i ELSE 0,
   data_page_offset |-> MagicLen + 40 * row_group_ordinal + 20 * i + (IF has_dictionary THEN 3 ELSE 0),
   compressed_size |-> 10 + 2 * i + (IF has_dictionary THEN 3 ELSE 0),
   uncompressed_size |-> 12 + 2 * i + (IF has_dictionary THEN 3 ELSE 0),
   statistics |-> [num_values |-> i + 1, null_count |-> 0]]

\* ColumnWriterImpl::Close on the builder of one column: SetStatistics, then
\* PageWriter::Close, which calls Finish with the totals and the encryptor
CloseColumnChunk(column, in, has_dictionary, fallback, encrypt_md, encrypted_footer, encryptor) ==
  FinishEncryption(
    Finish(SetStatistics([md |-> column, h |-> NoCalls], in.statistics),
           in.num_values, in.dictionary_page_offset, in.data_page_offset,
           in.compressed_size, in.uncompressed_size, has_dictionary, fallback),
    encrypt_md, encrypted_footer, encryptor).md

\* the format::RowGroup a RowGroupMetaDataBuilderImpl is constructed on:
\* InitializeColumns resizes columns to the columns of the schema
RowGroup_New ==
  [columns |-> [i \in Columns |-> ColumnChunk_New],
   num_rows |-> 0, total_byte_size |-> 0,
   isset_file_offset |-> FALSE, file_offset |-> 0,
   isset_total_compressed_size |-> FALSE, total_compressed_size |-> 0,
   isset_ordinal |-> FALSE, ordinal |-> 0]

\* schema_->num_columns()
num_columns == Cardinality(Columns)

\* FileMetaDataBuilder::Make, with the encryption properties of the writer
FileMetaDataBuilder_Make(file_encryption_properties, column_encryption_properties) ==
  [exists |-> TRUE,
   file_encryption_properties |-> file_encryption_properties,
   column_encryption_properties |-> column_encryption_properties,
   row_groups |-> <<>>,
   current_column |-> 0,
   column_builders |-> <<>>,
   closed |-> {},
   finished |-> FALSE,
   crashed |-> FALSE,
   thrown |-> 0,
   throws |-> {},
   last |-> [op |-> "Make"],
   metadata |-> NULLPTR,
   other |-> NULLPTR]

\* the encryption properties of the writers of the model
BuilderEncryptionChoices ==
  {[file |-> NULLPTR, column |-> [i \in Columns |-> NULLPTR]]} \cup
  { [file |-> f, column |-> c] :
      f \in {e \in FileEncryptionChoices \ {NULLPTR} : e.file_aad = <<"", "u">> /\ e.algorithm.algorithm = "AES_GCM_V1"},
      c \in {x \in [Columns -> ColumnEncryptionChoices] :
               x[1] = NULLPTR \/ (x[1].is_encrypted /\ ~x[1].is_encrypted_with_footer_key)} }

\* the writer properties of the model: both PageWriter variants
BuilderProps ==
  { p \in PropsChoices :
      /\ p.dictionary_enabled /\ ~p.codec
      /\ p.descr = [D |-> 0, R |-> 0, optional |-> FALSE]
      /\ p.data_pagesize = 2 /\ p.write_batch_size = 2 /\ p.sink_start = MagicLen
      /\ \A l \in DictionaryPageSizeLimits : p.dictionary_pagesize_limit <= l }

BuilderInit ==
  /\ props \in BuilderProps
  /\ cw = ColumnWriter_Make(props)
  /\ pw = SerializedPageWriter_New
  /\ out = EmptySink(0)
  /\ fin = EmptySink(props.sink_start)
  /\ md = ColumnChunk_New
  /\ h = NoCalls
  /\ file = NoFile
  /\ rd = NoReader
  /\ rg = NoRowGroup
  /\ mb \in {FileMetaDataBuilder_Make(e.file, e.column) : e \in BuilderEncryptionChoices}
  /\ st = NoStatistics
  /\ ep = NoPageWriter

\* the row group under construction: row_groups_.back()
CurrentRowGroup(b) == b.row_groups[Len(b.row_groups)]
CurrentOrdinal(b) == Len(b.row_groups) - 1
encrypted_footer(b) == b.file_encryption_properties # NULLPTR /\ b.file_encryption_properties.encrypted_footer

\* FileMetaDataBuilderImpl::AppendRowGroup: a new format::RowGroup at the back
\* of row_groups_, and a new RowGroupMetaDataBuilder on it
AppendRowGroup(b) ==
  [b EXCEPT
     !.row_groups = Append(@, RowGroup_New),
     !.current_column = 0,
     !.column_builders = <<>>,
     !.closed = {},
     !.finished = FALSE,
     !.last = [op |-> "AppendRowGroup"]]

\* a mutant of NextColumnChunk: current_column_ is advanced before the test
NextColumnChunk_AdvancesFirst(b) ==
  IF ~(b.current_column < num_columns)
  THEN [b EXCEPT !.thrown = @ + 1, !.throws = @ \cup {"NextColumnChunk"},
                 !.current_column = @ + 1,
                 !.last = [op |-> "NextColumnChunk", thrown |-> TRUE]]
  ELSE [b EXCEPT
          !.column_builders = Append(@, b.current_column),
          !.current_column = @ + 1,
          !.last = [op |-> "NextColumnChunk", thrown |-> FALSE, column |-> b.current_column]]

\* RowGroupMetaDataBuilderImpl::NextColumnChunk
NextColumnChunk(b) ==
  IF ~(b.current_column < num_columns)
  THEN [b EXCEPT !.thrown = @ + 1, !.throws = @ \cup {"NextColumnChunk"},
                 !.last = [op |-> "NextColumnChunk", thrown |-> TRUE]]
  ELSE [b EXCEPT
          !.column_builders = Append(@, b.current_column),
          !.current_column = @ + 1,
          !.last = [op |-> "NextColumnChunk", thrown |-> FALSE, column |-> b.current_column]]

\* RowGroupMetaDataBuilderImpl::set_num_rows
set_num_rows(b, num_rows) ==
  [b EXCEPT !.row_groups[Len(b.row_groups)].num_rows = num_rows,
            !.last = [op |-> "set_num_rows"]]

\* ColumnChunkMetaDataBuilder::total_compressed_size
total_compressed_size(column) == column.total_compressed_size

\* a mutant of the loop: the sizes are read from the plaintext meta_data
RECURSIVE SumPlaintextSizes(_, _)
SumPlaintextSizes(row_group, column_builders) ==
  IF column_builders = <<>> THEN 0
  ELSE (IF row_group.columns[Head(column_builders)].isset_meta_data
        THEN row_group.columns[Head(column_builders)].total_compressed_size ELSE 0)
       + SumPlaintextSizes(row_group, Tail(column_builders))

\* the loop of RowGroupMetaDataBuilderImpl::Finish over the column builders
RECURSIVE SumCompressedSizes(_, _)
SumCompressedSizes(row_group, column_builders) ==
  IF column_builders = <<>> THEN 0
  ELSE total_compressed_size(row_group.columns[Head(column_builders)])
       + SumCompressedSizes(row_group, Tail(column_builders))

\* RowGroupMetaDataBuilderImpl::Finish
RowGroupMetaDataBuilder_Finish(b, total_bytes_written, row_group_ordinal) ==
  IF ~(b.current_column = num_columns) \/ \E i \in Columns : ~(CurrentRowGroup(b).columns[i].file_offset >= 0)
  THEN [b EXCEPT !.thrown = @ + 1, !.throws = @ \cup {"RowGroupFinish"},
                 !.last = [op |-> "RowGroupFinish", thrown |-> TRUE]]
  ELSE [b EXCEPT
          !.row_groups[Len(b.row_groups)] =
             [@ EXCEPT !.isset_file_offset = TRUE,
                       !.file_offset = CurrentRowGroup(b).columns[0].file_offset,
                       !.isset_total_compressed_size = TRUE,
                       !.total_compressed_size = SumCompressedSizes(CurrentRowGroup(b), b.column_builders),
                       !.total_byte_size = total_bytes_written,
                       !.isset_ordinal = TRUE,
                       !.ordinal = row_group_ordinal],
          !.finished = TRUE,
          !.last = [op |-> "RowGroupFinish", thrown |-> FALSE,
                    total_bytes_written |-> total_bytes_written,
                    row_group_ordinal |-> row_group_ordinal]]

\* the loop of FileMetaDataBuilderImpl::Finish over row_groups_
RECURSIVE TotalRows(_)
TotalRows(row_groups) ==
  IF row_groups = <<>> THEN 0 ELSE Head(row_groups).num_rows + TotalRows(Tail(row_groups))

\* FileMetaDataBuilderImpl::Finish: num_rows and row_groups of the FileMetaData
FileMetaData_Finish(b) ==
  [b EXCEPT !.metadata = [num_rows |-> TotalRows(b.row_groups), row_groups |-> b.row_groups],
            !.last = [op |-> "FileFinish"]]

\* FileMetaDataImpl::AppendRowGroups: the loop from index i on. other is read
\* through its reference at every turn; aliased says that other is this object.
\* push_back throws std::bad_alloc when the vector cannot grow
RECURSIVE AppendRowGroupsFrom(_, _, _, _)
AppendRowGroupsFrom(this, other, aliased, i) ==
  IF ~(i < Len((IF aliased THEN this ELSE other).row_groups))
  THEN [this |-> this, other |-> IF aliased THEN this ELSE other, thrown |-> FALSE]
  ELSE IF Len(this.row_groups) >= MaxVectorSize
  THEN [this |-> this, other |-> IF aliased THEN this ELSE other, thrown |-> TRUE]
  ELSE AppendRowGroupsFrom(
         [this EXCEPT !.row_groups = Append(@, (IF aliased THEN this ELSE other).row_groups[i + 1]),
                      !.num_rows = @ + (IF aliased THEN this ELSE other).row_groups[i + 1].num_rows],
         other, aliased, i + 1)

\* FileMetaData::AppendRowGroups
AppendRowGroups(this, other, aliased) == AppendRowGroupsFrom(this, other, aliased, 0)

\* the FileMetaData objects of other files that are merged into this one
OtherRowGroup(num_rows, ordinal) ==
  [RowGroup_New EXCEPT !.num_rows = num_rows, !.isset_ordinal = TRUE, !.ordinal = ordinal]

OtherFileMetaData ==
  { [num_rows |-> 0, row_groups |-> <<>>],
    [num_rows |-> 3, row_groups |-> <<OtherRowGroup(1, 0), OtherRowGroup(2, 1)>>] }

\* FileMetaDataBuilder::AppendRowGroup
MbAppendRowGroup ==
  /\ mb.exists /\ ~mb.crashed /\ mb.metadata = NULLPTR
  /\ Len(mb.row_groups) < MaxRowGroups
  /\ Len(mb.row_groups) = 0 \/ mb.finished
  /\ mb' = AppendRowGroup(mb)
  /\ UNCHANGED <<props, cw, pw, out, fin, md, h, file, rd, rg, st, ep>>

\* RowGroupMetaDataBuilder::NextColumnChunk
MbNextColumnChunk ==
  /\ mb.exists /\ ~mb.crashed /\ mb.metadata = NULLPTR
  /\ Len(mb.row_groups) > 0 /\ ~mb.finished
  /\ mb.current_column < num_columns \/ (mb.thrown < MaxFailedCalls /\ "NextColumnChunk" \notin mb.throws)
  /\ mb' = NextColumnChunk(mb)
  /\ UNCHANGED <<props, cw, pw, out, fin, md, h, file, rd, rg, st, ep>>

\* RowGroupMetaDataBuilder::set_num_rows
MbSetNumRows ==
  /\ mb.exists /\ ~mb.crashed /\ mb.metadata = NULLPTR
  /\ Len(mb.row_groups) > 0 /\ ~mb.finished
  /\ CurrentRowGroup(mb).num_rows = 0
  /\ mb.closed = {mb.column_builders[k] : k \in 1..Len(mb.column_builders)}
  /\ \E num_rows \in {Len(mb.row_groups)} : mb' = set_num_rows(mb, num_rows)
  /\ UNCHANGED <<props, cw, pw, out, fin, md, h, file, rd, rg, st, ep>>

\* ColumnWriter::Close of the writer of a column whose builder was handed out.
\* A null encryptor that Finish dereferences is undefined behaviour: the
\* process crashes, or Finish goes on with whatever the null pointer yields
MbCloseColumn ==
  /\ mb.exists /\ ~mb.crashed /\ mb.metadata = NULLPTR
  /\ Len(mb.row_groups) > 0 /\ ~mb.finished
  /\ \E k \in 1..Len(mb.column_builders) :
       \E has_dictionary \in (IF mb.column_builders[k] = 0 THEN BOOLEAN ELSE {FALSE}) :
          \E fallback \in (IF has_dictionary THEN BOOLEAN ELSE {FALSE}) :
             \E encryptor \in {PageWriter_CloseEncryptor(props.buffered, MetaEncryptor(mb.file_encryption_properties, mb.column_encryption_properties[mb.column_builders[k]], CurrentOrdinal(mb), mb.column_builders[k]), CurrentOrdinal(mb), mb.column_builders[k])} :
                /\ mb.column_builders[k] \notin mb.closed
                /\ IF FinishDereferencesNull(mb.column_encryption_properties[mb.column_builders[k]], encrypted_footer(mb), encryptor)
                   THEN \/ mb' = [mb EXCEPT !.crashed = TRUE,
                                            !.last = [op |-> "CloseColumn", column |-> mb.column_builders[k], undefined |-> TRUE,
                                                      has_dictionary |-> has_dictionary, fallback |-> fallback, encryptor |-> encryptor]]
                        \/ mb' = [mb EXCEPT
                                    !.row_groups[Len(mb.row_groups)].columns[mb.column_builders[k]] =
                                       CloseColumnChunk(@, PagerTotals(CurrentOrdinal(mb), mb.column_builders[k], has_dictionary), has_dictionary, fallback,
                                                        mb.column_encryption_properties[mb.column_builders[k]], encrypted_footer(mb), Encryptor("?", "?", "?")),
                                    !.closed = @ \cup {mb.column_builders[k]},
                                    !.last = [op |-> "CloseColumn", column |-> mb.column_builders[k], undefined |-> TRUE,
                                              has_dictionary |-> has_dictionary, fallback |-> fallback, encryptor |-> encryptor]]
                   ELSE mb' = [mb EXCEPT
                                 !.row_groups[Len(mb.row_groups)].columns[mb.column_builders[k]] =
                                    CloseColumnChunk(@, PagerTotals(CurrentOrdinal(mb), mb.column_builders[k], has_dictionary), has_dictionary, fallback,
                                                     mb.column_encryption_properties[mb.column_builders[k]], encrypted_footer(mb), encryptor),
                                 !.closed = @ \cup {mb.column_builders[k]},
                                 !.last = [op |-> "CloseColumn", column |-> mb.column_builders[k], undefined |-> FALSE,
                                           has_dictionary |-> has_dictionary, fallback |-> fallback, encryptor |-> encryptor]]
  /\ UNCHANGED <<props, cw, pw, out, fin, md, h, file, rd, rg, st, ep>>

\* RowGroupMetaDataBuilder::Finish
MbRowGroupFinish ==
  /\ mb.exists /\ ~mb.crashed /\ mb.metadata = NULLPTR
  /\ Len(mb.row_groups) > 0 /\ ~mb.finished
  /\ mb.closed = {mb.column_builders[k] : k \in 1..Len(mb.column_builders)}
  /\ mb.current_column = num_columns \/ (mb.thrown < MaxFailedCalls /\ "RowGroupFinish" \notin mb.throws)
  /\ \E total_bytes_written \in {40} :
       mb' = RowGroupMetaDataBuilder_Finish(mb, total_bytes_written, CurrentOrdinal(mb))
  /\ UNCHANGED <<props, cw, pw, out, fin, md, h, file, rd, rg, st, ep>>

\* FileMetaDataBuilder::Finish
MbFileFinish ==
  /\ mb.exists /\ ~mb.crashed /\ mb.metadata = NULLPTR
  /\ Len(mb.row_groups) = 0 \/ mb.finished
  /\ mb' = FileMetaData_Finish(mb)
  /\ UNCHANGED <<props, cw, pw, out, fin, md, h, file, rd, rg, st, ep>>

\* FileMetaData::AppendRowGroups with the metadata of another file, or with
\* this object itself
MbAppendRowGroups ==
  /\ mb.exists /\ ~mb.crashed /\ mb.metadata # NULLPTR
  /\ \E aliased \in BOOLEAN :
       \E other \in (IF aliased THEN {mb.metadata} ELSE OtherFileMetaData) :
          /\ aliased \/ Len(mb.metadata.row_groups) + Len(other.row_groups) <= MaxVectorSize
          /\ other.row_groups = <<>> => mb.other = NULLPTR
          /\ aliased => Len(mb.metadata.row_groups) < MaxVectorSize
          /\ \E r \in {AppendRowGroups(mb.metadata, other, aliased)} :
               mb' = [mb EXCEPT !.metadata = r.this,
                                !.other = r.other,
                                !.thrown = IF r.thrown THEN @ + 1 ELSE @,
                                !.throws = IF r.thrown THEN @ \cup {"AppendRowGroups"} ELSE @,
                                !.last = [op |-> "AppendRowGroups", aliased |-> aliased,
                                          this |-> mb.metadata, other |-> other, thrown |-> r.thrown]]
  /\ UNCHANGED <<props, cw, pw, out, fin, md, h, file, rd, rg, st, ep>>

BuilderNext ==
  \/ MbAppendRowGroup
  \/ MbNextColumnChunk
  \/ MbSetNumRows
  \/ MbCloseColumn
  \/ MbRowGroupFinish
  \/ MbFileFinish
  \/ MbAppendRowGroups

BuilderSpec == BuilderInit /\ [][BuilderNext]_vars

----------------------------------------------------------------------------
(* Claims about the metadata builders *)

\* the meta encryptor the PageWriter of the column closed last was made with
LastMetaEncryptor ==
  MetaEncryptor(mb.file_encryption_properties, mb.column_encryption_properties[mb.last.column],
                CurrentOrdinal(mb), mb.last.column)

ColumnClosed == mb.exists /\ mb.last.op = "CloseColumn"

\* C25: on Close with a metadata encryptor configured, the streaming and the
\* buffered PageWriter both set the AAD of the metadata encryptor to the
\* ColumnMetaData module AAD of (row group ordinal, column ordinal) and pass
\* that encryptor to ColumnChunkMetaDataBuilder.Finish, so that Finish has a
\* non-null encryptor with the ColumnMetaData AAD whenever it must encrypt the
\* ColumnMetaData separately.
C25_MetaEncryptorReachesFinish ==
  (ColumnClosed /\ LastMetaEncryptor # NULLPTR)
  => /\ mb.last.encryptor # NULLPTR
     /\ mb.last.encryptor.aad =
          CreateModuleAad(mb.file_encryption_properties.file_aad, "ColumnMetaData", CurrentOrdinal(mb), mb.last.column)
     /\ ~mb.last.undefined

RowGroupFinished == mb.exists /\ mb.last.op = "RowGroupFinish" /\ ~mb.last.thrown

\* the compressed size the builder of column i of the current row group was
\* finished with: what its PageWriter counted
CompressedSizeFinishedWith(i) ==
  PagerTotals(CurrentOrdinal(mb), i,
              Head(CurrentRowGroup(mb).columns[i].encodings) = props.dictionary_index_encoding).compressed_size

\* C26: RowGroupMetaDataBuilder.Finish, called after the builder of every
\* column was finished, sets total_compressed_size to the sum over the columns
\* of the compressed size each builder was finished with, also for a column
\* whose plaintext meta_data is unset because it is encrypted; file_offset is
\* the file_offset of column 0, total_byte_size the total_bytes_written
\* argument and ordinal the row_group_ordinal argument.
C26_RowGroupTotals ==
  RowGroupFinished =>
    /\ CurrentRowGroup(mb).isset_total_compressed_size
    /\ CurrentRowGroup(mb).total_compressed_size = CompressedSizeFinishedWith(0) + CompressedSizeFinishedWith(1)
    /\ CurrentRowGroup(mb).isset_file_offset
    /\ CurrentRowGroup(mb).file_offset = CurrentRowGroup(mb).columns[0].file_offset
    /\ CurrentRowGroup(mb).total_byte_size = mb.last.total_bytes_written
    /\ CurrentRowGroup(mb).isset_ordinal
    /\ CurrentRowGroup(mb).ordinal = mb.last.row_group_ordinal

\* a second row group is finished whose column 0 has no plaintext meta_data
C26_Witness ==
  /\ RowGroupFinished
  /\ ~props.buffered
  /\ CurrentOrdinal(mb) = 1
  /\ ~CurrentRowGroup(mb).columns[0].isset_meta_data
  /\ CurrentRowGroup(mb).columns[0].isset_encrypted_column_metadata
  /\ CurrentRowGroup(mb).columns[1].isset_meta_data
  /\ CurrentRowGroup(mb).total_compressed_size = 25

\* a step of the builders that is the call of one operation
BuilderCall(op) == mb.exists /\ mb' # mb /\ mb'.last.op = op

\* the builders handed out so far are those of columns 0, 1, ... in order
HandedOutInOrder ==
  /\ Len(mb.column_builders) = mb.current_column
  /\ mb.current_column <= num_columns
  /\ \A k \in 1..Len(mb.column_builders) : mb.column_builders[k] = k - 1

\* C27: for a schema of n columns RowGroupMetaDataBuilder hands out the column
\* builders of columns 0 .. n-1 in that order, one per NextColumnChunk call;
\* the (n+1)-th call fails and leaves current_column and the builders
\* unchanged; Finish fails, without modifying the row group, unless exactly n
\* column builders were handed out.
C27_ColumnBuildersInOrder ==
  [][/\ (mb.exists /\ Len(mb.row_groups) > 0) => HandedOutInOrder
     /\ BuilderCall("NextColumnChunk") =>
          IF mb.current_column < num_columns
          THEN /\ ~mb'.last.thrown
               /\ mb'.last.column = mb.current_column
               /\ mb'.current_column = mb.current_column + 1
               /\ mb'.column_builders = Append(mb.column_builders, mb.current_column)
          ELSE /\ mb'.last.thrown
               /\ mb'.current_column = mb.current_column
               /\ mb'.column_builders = mb.column_builders
               /\ mb'.row_groups = mb.row_groups
     /\ BuilderCall("RowGroupFinish") =>
          /\ mb'.last.thrown <=> Len(mb.column_builders) # num_columns
          /\ mb'.last.thrown => mb'.row_groups = mb.row_groups /\ ~mb'.finished]_vars

\* Finish failed with one builder handed out, and later the third
\* NextColumnChunk call failed
C27_Witness ==
  /\ mb.exists
  /\ mb.throws = {"RowGroupFinish", "NextColumnChunk"}
  /\ mb.last.op = "NextColumnChunk" /\ mb.last.thrown
  /\ mb.current_column = num_columns
  /\ mb.column_builders = <<0, 1>>

\* the sum of num_rows over a list of row groups
RECURSIVE SumNumRows(_)
SumNumRows(row_groups) ==
  IF row_groups = <<>> THEN 0
  ELSE row_groups[Len(row_groups)].num_rows + SumNumRows(SubSeq(row_groups, 1, Len(row_groups) - 1))

\* C28: FileMetaData.num_rows always equals the sum of num_rows over its row
\* groups and the row groups keep their insertion order: in the result of
\* FileMetaDataBuilder.Finish the row groups are those of the AppendRowGroup
\* calls in order, and every AppendRowGroups(other) call appends the row groups
\* of other in order and leaves other unchanged.
C28_NumRowsIsSumOfRowGroups ==
  (mb.exists /\ mb.metadata # NULLPTR) =>
    /\ mb.metadata.num_rows = SumNumRows(mb.metadata.row_groups)
    /\ mb.last.op = "FileFinish" =>
         /\ mb.metadata.row_groups = mb.row_groups
         /\ \A k \in 1..Len(mb.row_groups) : mb.row_groups[k].ordinal = k - 1
    /\ mb.last.op = "AppendRowGroups" =>
         /\ mb.metadata.row_groups = mb.last.this.row_groups \o mb.last.other.row_groups
         /\ mb.other = mb.last.other
         /\ ~mb.last.thrown

\* the column closed last, its encryption properties, and what a reader of the
\* ColumnChunk finds in plaintext
LastColumn == CurrentRowGroup(mb).columns[mb.last.column]
LastEncryptMd == mb.column_encryption_properties[mb.last.column]
LastPlaintext == WrittenColumnChunk(LastColumn)

\* the ColumnMetaData inside encrypted_column_metadata
LastEncryptedMetaData == Head(LastColumn.encrypted_column_metadata).plaintext.obj

\* the statistics installed before Finish
LastStatistics == PagerTotals(CurrentOrdinal(mb), mb.last.column, mb.last.has_dictionary).statistics

\* Finish ran to its end on the column closed last
ColumnFinished == ColumnClosed /\ ~mb.last.undefined

\* C29: after ColumnChunkMetaDataBuilder.Finish of a column whose
\* ColumnMetaData is encrypted separately the plaintext part of the
\* ColumnChunk shows no statistics: with an encrypted footer meta_data is
\* unset, with a plaintext footer meta_data is set without statistics, and in
\* both cases encrypted_column_metadata is the ciphertext of the full
\* ColumnMetaData with the statistics installed before Finish; for a column
\* that is not encrypted meta_data stays set with its statistics and no
\* crypto_metadata is set.
C29_NoPlaintextStatistics ==
  ColumnFinished =>
    IF EncryptColumnMetaData(encrypted_footer(mb), LastEncryptMd)
    THEN /\ LastColumn.isset_meta_data = ~encrypted_footer(mb)
         /\ ~LastPlaintext.isset_statistics
         /\ LastPlaintext.statistics = EmptyStatistics
         /\ LastColumn.isset_encrypted_column_metadata
         /\ Head(LastColumn.encrypted_column_metadata).kind = "cipher"
         /\ LastEncryptedMetaData.isset_statistics
         /\ LastEncryptedMetaData.statistics = LastStatistics
         /\ LastEncryptedMetaData.num_values = mb.last.column + 1
         /\ LastEncryptedMetaData.encodings = LastColumn.encodings
    ELSE (LastEncryptMd = NULLPTR \/ ~LastEncryptMd.is_encrypted) =>
            /\ LastColumn.isset_meta_data
            /\ LastPlaintext.isset_statistics
            /\ LastPlaintext.statistics = LastStatistics
            /\ ~LastColumn.isset_crypto_metadata
            /\ ~LastColumn.isset_encrypted_column_metadata

\* a column with its own key is finished under a plaintext footer
C29_Witness ==
  /\ ColumnFinished
  /\ ~encrypted_footer(mb)
  /\ LastEncryptMd # NULLPTR /\ LastEncryptMd.is_encrypted /\ ~LastEncryptMd.is_encrypted_with_footer_key
  /\ LastColumn.isset_meta_data /\ ~LastColumn.isset_statistics
  /\ LastEncryptedMetaData.statistics = [num_values |-> 1, null_count |-> 0]

----------------------------------------------------------------------------
(* Claims about the encodings of a chunk *)

\* the encodings list installed by Finish
Encodings == md.encodings

NoEncodingTwice(encodings) ==
  \A i, j \in 1..Len(encodings) : encodings[i] = encodings[j] => i = j

\* Close has finished the chunk and nothing was written since
ChunkFinished == cw.closed /\ md.finish_calls > 0 /\ h.levels_after_close = 0

\* C30: for a chunk finished with has_dictionary = true and fallback = true the
\* encodings list installed by ColumnChunkMetaDataBuilder.Finish has exactly
\* three entries, the dictionary index encoding, RLE and PLAIN, each once; for
\* every chunk the list contains RLE and contains no encoding twice.
C30_EncodingsList ==
  ChunkFinished =>
    /\ (cw.has_dictionary /\ cw.fallback) =>
         /\ Len(Encodings) = 3
         /\ {Encodings[i] : i \in 1..Len(Encodings)} = {props.dictionary_index_encoding, "RLE", "PLAIN"}
    /\ \E i \in 1..Len(Encodings) : Encodings[i] = "RLE"
    /\ NoEncodingTwice(Encodings)

----------------------------------------------------------------------------
(* Statistics: EncodedStatistics, format::Statistics, the reader's Statistics *)

\* descr_->sort_order() and descr->column_order().get_order()
SortOrders == {"SIGNED", "UNSIGNED", "UNKNOWN"}
ColumnOrders == {"TYPE_DEFINED_ORDER", "UNDEFINED"}

\* the encoded min and max of the pages of the model
StatValues == {"a", "b", "c"}

\* GetPageStatistics / GetChunkStatistics: the EncodedStatistics of a column
EncodedStatisticsChoices ==
  [has_min : BOOLEAN, has_max : BOOLEAN, min : StatValues, max : StatValues,
   is_signed : {FALSE}, has_null_count : {TRUE}, null_count : {0, 1}]

\* EncodedStatistics::set_is_signed
set_is_signed(stats, is_signed) == [stats EXCEPT !.is_signed = is_signed]

\* ColumnWriterImpl::AddDataPage and Close: the statistics are tagged signed
\* when the sort order of the column is SIGNED
TagSigned(stats, sort_order) == set_is_signed(stats, "SIGNED" = sort_order)

\* a mutant of ToThrift: the legacy fields are written for every sort order
ToThrift_AlwaysLegacy(stats) ==
  [isset_min_value |-> stats.has_min,
   min_value |-> IF stats.has_min THEN stats.min ELSE "",
   isset_min |-> stats.has_min,
   min |-> IF stats.has_min THEN stats.min ELSE "",
   isset_max_value |-> stats.has_max,
   max_value |-> IF stats.has_max THEN stats.max ELSE "",
   isset_max |-> stats.has_max,
   max |-> IF stats.has_max THEN stats.max ELSE "",
   isset_null_count |-> stats.has_null_count,
   null_count |-> IF stats.has_null_count THEN stats.null_count ELSE 0]

\* ToThrift(const EncodedStatistics&)
ToThrift(stats) ==
  [isset_min_value |-> stats.has_min,
   min_value |-> IF stats.has_min THEN stats.min ELSE "",
   isset_min |-> stats.has_min /\ stats.is_signed,
   min |-> IF stats.has_min /\ stats.is_signed THEN stats.min ELSE "",
   isset_max_value |-> stats.has_max,
   max_value |-> IF stats.has_max THEN stats.max ELSE "",
   isset_max |-> stats.has_max /\ stats.is_signed,
   max |-> IF stats.has_max /\ stats.is_signed THEN stats.max ELSE "",
   isset_null_count |-> stats.has_null_count,
   null_count |-> IF stats.has_null_count THEN stats.null_count ELSE 0]

\* TypedStatistics::Make from encoded bytes
TypedStatistics_Make(encoded_min, encoded_max, num_values, null_count, has_min_max) ==
  [min |-> encoded_min, max |-> encoded_max, num_values |-> num_values,
   null_count |-> null_count, has_min_max |-> has_min_max]

\* MakeTypedColumnStats
MakeTypedColumnStats(num_values, statistics, column_order) ==
  IF column_order = "TYPE_DEFINED_ORDER"
  THEN TypedStatistics_Make(statistics.min_value, statistics.max_value,
                            num_values - statistics.null_count, statistics.null_count,
                            statistics.isset_max_value \/ statistics.isset_min_value)
  ELSE TypedStatistics_Make(statistics.min, statistics.max,
                            num_values - statistics.null_count, statistics.null_count,
                            statistics.isset_max \/ statistics.isset_min)

StatisticsInit ==
  /\ props \in BuilderProps
  /\ cw = ColumnWriter_Make(props)
  /\ pw = SerializedPageWriter_New
  /\ out = EmptySink(0)
  /\ fin = EmptySink(props.sink_start)
  /\ md = ColumnChunk_New
  /\ h = NoCalls
  /\ file = NoFile
  /\ rd = NoReader
  /\ rg = NoRowGroup
  /\ mb = NoBuilder
  /\ st = NoStatistics
  /\ ep = NoPageWriter

\* the writer has the statistics of a page or of the chunk and tags them
StCollect ==
  /\ st.stage = "none"
  /\ \E stats \in EncodedStatisticsChoices, sort_order \in SortOrders :
       st' = [stage |-> "encoded", sort_order |-> sort_order,
              encoded |-> TagSigned(stats, sort_order)]
  /\ UNCHANGED <<props, cw, pw, out, fin, md, h, file, rd, rg, mb, ep>>

\* SetStatistics / the DataPageHeader: the statistics go to Thrift
StToThrift ==
  /\ st.stage = "encoded"
  /\ st' = [stage |-> "thrift", sort_order |-> st.sort_order, encoded |-> st.encoded,
            statistics |-> ToThrift(st.encoded)]
  /\ UNCHANGED <<props, cw, pw, out, fin, md, h, file, rd, rg, mb, ep>>

\* ColumnChunkMetaData::statistics: the reader builds the chunk statistics
StRead ==
  /\ st.stage = "thrift"
  /\ \E column_order \in ColumnOrders, num_values \in {2, 3} :
       st' = [stage |-> "read", sort_order |-> st.sort_order, encoded |-> st.encoded,
              statistics |-> st.statistics, column_order |-> column_order,
              read |-> MakeTypedColumnStats(num_values, st.statistics, column_order)]
  /\ UNCHANGED <<props, cw, pw, out, fin, md, h, file, rd, rg, mb, ep>>

StatisticsNext == StCollect \/ StToThrift \/ StRead

StatisticsSpec == StatisticsInit /\ [][StatisticsNext]_vars

\* C31: statistics with a min and a max that are converted to Thrift always
\* have min_value and max_value set, and the legacy min and max are set, to
\* the same bytes, if and only if the statistics are tagged signed, which the
\* writer does exactly when the sort order of the column is SIGNED; the reader
\* builds the chunk statistics from min_value / max_value when the column order
\* is TYPE_DEFINED_ORDER and from the legacy min / max otherwise.
C31_StatisticsFields ==
  /\ (st.stage \in {"thrift", "read"} /\ st.encoded.has_min /\ st.encoded.has_max) =>
       /\ st.statistics.isset_min_value /\ st.statistics.min_value = st.encoded.min
       /\ st.statistics.isset_max_value /\ st.statistics.max_value = st.encoded.max
       /\ st.statistics.isset_min <=> st.encoded.is_signed
       /\ st.statistics.isset_max <=> st.encoded.is_signed
       /\ st.encoded.is_signed => /\ st.statistics.min = st.statistics.min_value
                                  /\ st.statistics.max = st.statistics.max_value
       /\ st.encoded.is_signed <=> st.sort_order = "SIGNED"
  /\ st.stage = "read" =>
       /\ st.read.min = IF st.column_order = "TYPE_DEFINED_ORDER" THEN st.statistics.min_value ELSE st.statistics.min
       /\ st.read.max = IF st.column_order = "TYPE_DEFINED_ORDER" THEN st.statistics.max_value ELSE st.statistics.max

\* statistics of an UNSIGNED column are read back under TYPE_DEFINED_ORDER
C31_Witness ==
  /\ st.stage = "read"
  /\ st.sort_order = "UNSIGNED" /\ st.column_order = "TYPE_DEFINED_ORDER"
  /\ st.encoded.has_min /\ st.encoded.has_max
  /\ ~st.statistics.isset_min /\ st.read.min = "a" /\ st.read.max = "c"

----------------------------------------------------------------------------
(* Claims about the statistics and the pages of the column writer *)

\* the null count the writer has collected: merged pages plus the open page
NullCount == cw.chunk_statistics.null_count + cw.page_statistics.null_count

\* the submitted levels whose definition level is below D
LevelsBelowD == h.levels - h.def_eq_D

\* C32: for every mini-batch the null count added to the page statistics is
\* num_levels minus values_to_write, the number of submitted levels whose
\* definition level is below D, in WriteBatch and in WriteBatchSpaced alike, so
\* the same levels give the same chunk null_count through either entry point,
\* for every D >= 1.
C32_NullCountIsLevelsBelowD ==
  (max_definition_level >= 1 /\ ~h.failed /\ h.levels_after_close = 0)
  => NullCount = LevelsBelowD

\* the bytes of the values of a data page of num_values levels
ValuesSize(num_values, uncompressed_size) ==
  uncompressed_size
  - (IF max_definition_level > 0 THEN RleEncodeLevels(num_values) ELSE 0)
  - (IF max_repetition_level > 0 THEN RleEncodeLevels(num_values) ELSE 0)

\* the values of one mini-batch add at most this to the size of the encoder
MiniBatchBytes == props.write_batch_size * PlainValueBytes

\* a data page of num_values levels is within one mini-batch of the threshold
\* and holds at least one level
WithinOneMiniBatch(num_values, uncompressed_size) ==
  /\ num_values > 0
  /\ ValuesSize(num_values, uncompressed_size) < props.data_pagesize + MiniBatchBytes

PageOrdinalBits == 16

\* the writes of data pages followed: one more than the values of page_ordinal_
MaxDataPages == 65537

\* the value an int16_t holds after the assignment of n
ToInt16(n) == ((n + 2^(PageOrdinalBits - 1)) % 2^PageOrdinalBits) - 2^(PageOrdinalBits - 1)

\* encryption::QuickUpdatePageAad(AAD, int16_t new_page_ordinal): the page
\* ordinal of the AAD becomes the int16_t it is given
QuickUpdatePageAad(AAD, new_page_ordinal) == <<AAD[1], AAD[2], AAD[3], AAD[4], ToInt16(new_page_ordinal)>>

\* SerializedPageWriter::InitEncryption: the AADs prepared for the quick update
InitEncryption(w) ==
  [w EXCEPT !.data_pageAAD = IF w.data_encryptor # NULLPTR
                             THEN QuickUpdatePageAad(CreateModuleAad(w.data_encryptor.file_aad, "DataPage", w.row_group_ordinal, w.column_ordinal), -1)
                             ELSE <<>>,
            !.data_page_headerAAD = IF w.meta_encryptor # NULLPTR
                                    THEN QuickUpdatePageAad(CreateModuleAad(w.meta_encryptor.file_aad, "DataPageHeader", w.row_group_ordinal, w.column_ordinal), -1)
                                    ELSE <<>>]

\* the SerializedPageWriter constructor of a column chunk with encryptors
EncryptingPageWriter_New(row_group_ordinal, column_chunk_ordinal, meta_encryptor, data_encryptor) ==
  InitEncryption([exists |-> TRUE,
                  page_ordinal |-> 0,
                  row_group_ordinal |-> row_group_ordinal,
                  column_ordinal |-> column_chunk_ordinal,
                  meta_encryptor |-> meta_encryptor,
                  data_encryptor |-> data_encryptor,
                  data_pageAAD |-> <<>>,
                  data_page_headerAAD |-> <<>>,
                  num_data_pages |-> 0,
                  dictionary_written |-> FALSE,
                  first |-> {},
                  last |-> {}])

\* SerializedPageWriter::UpdateEncryption(encryption::kDataPage)
UpdateEncryption_kDataPage(w) ==
  [w EXCEPT !.data_pageAAD = QuickUpdatePageAad(w.data_pageAAD, w.page_ordinal),
            !.data_encryptor = UpdateAad(w.data_encryptor, QuickUpdatePageAad(w.data_pageAAD, w.page_ordinal))]

\* SerializedPageWriter::UpdateEncryption(encryption::kDataPageHeader)
UpdateEncryption_kDataPageHeader(w) ==
  [w EXCEPT !.data_page_headerAAD = QuickUpdatePageAad(w.data_page_headerAAD, w.page_ordinal),
            !.meta_encryptor = UpdateAad(w.meta_encryptor, QuickUpdatePageAad(w.data_page_headerAAD, w.page_ordinal))]

\* SerializedPageWriter::UpdateEncryption(encryption::kDictionaryPage)
UpdateEncryption_kDictionaryPage(w) ==
  [w EXCEPT !.data_encryptor = UpdateAad(w.data_encryptor, CreateModuleAad(w.data_encryptor.file_aad, "DictionaryPage", w.row_group_ordinal, w.column_ordinal))]

\* SerializedPageWriter::UpdateEncryption(encryption::kDictionaryPageHeader)
UpdateEncryption_kDictionaryPageHeader(w) ==
  [w EXCEPT !.meta_encryptor = UpdateAad(w.meta_encryptor, CreateModuleAad(w.meta_encryptor.file_aad, "DictionaryPageHeader", w.row_group_ordinal, w.column_ordinal))]

\* the modules a write encrypted, each with the AAD its encryptor had
EncryptedModules(w, payload, header) ==
  (IF w.data_encryptor # NULLPTR THEN {[module |-> payload, aad |-> w.data_encryptor.aad]} ELSE {})
  \cup (IF w.meta_encryptor # NULLPTR THEN {[module |-> header, aad |-> w.meta_encryptor.aad]} ELSE {})

\* SerializedPageWriter::WriteDataPage, the encryption of the page and of its
\* header
EncryptDataPage(w) ==
  LET w1 == IF w.data_encryptor # NULLPTR THEN UpdateEncryption_kDataPage(w) ELSE w
      w2 == IF w1.meta_encryptor # NULLPTR THEN UpdateEncryption_kDataPageHeader(w1) ELSE w1
      modules == EncryptedModules(w2, "DataPage", "DataPageHeader")
  IN  [w2 EXCEPT !.page_ordinal = ToInt16(w2.page_ordinal + 1),
                 !.num_data_pages = w2.num_data_pages + 1,
                 !.first = IF w2.num_data_pages = 0 THEN modules ELSE w2.first,
                 !.last = modules]

\* SerializedPageWriter::WriteDictionaryPage, the encryption of the page and of
\* its header
EncryptDictionaryPage(w) ==
  LET w1 == IF w.data_encryptor # NULLPTR THEN UpdateEncryption_kDictionaryPage(w) ELSE w
      w2 == IF w1.meta_encryptor # NULLPTR THEN UpdateEncryption_kDictionaryPageHeader(w1) ELSE w1
  IN  [w2 EXCEPT !.dictionary_written = TRUE,
                 !.last = EncryptedModules(w2, "DictionaryPage", "DictionaryPageHeader")]

\* the encryptors a column chunk's page writer may get: the meta encryptor,
\* the data encryptor, or both
PageEncryptorChoices ==
  { e \in [meta : {NULLPTR, Encryptor(FooterKey, "aad", <<>>)}, data : {NULLPTR, Encryptor(FooterKey, "aad", <<>>)}] :
      e.meta # NULLPTR \/ e.data # NULLPTR }

PageEncryptionInit ==
  /\ props \in { p \in BuilderProps : ~p.buffered }
  /\ cw = ColumnWriter_Make(props)
  /\ pw = SerializedPageWriter_New
  /\ out = EmptySink(0)
  /\ fin = EmptySink(props.sink_start)
  /\ md = ColumnChunk_New
  /\ h = NoCalls
  /\ file = NoFile
  /\ rd = NoReader
  /\ rg = NoRowGroup
  /\ mb = NoBuilder
  /\ st = NoStatistics
  /\ \E e \in PageEncryptorChoices, ordinals \in {<<0, 0>>, <<1, 0>>} :
       ep = EncryptingPageWriter_New(ordinals[1], ordinals[2], e.meta, e.data)

\* the column writer writes the dictionary page of a chunk once
EpWriteDictionaryPage ==
  /\ ep.exists /\ ~ep.dictionary_written
  /\ ep' = EncryptDictionaryPage(ep)
  /\ UNCHANGED <<props, cw, pw, out, fin, md, h, file, rd, rg, mb, st>>

EpWriteDataPage ==
  /\ ep.exists /\ ep.num_data_pages < MaxDataPages
  /\ ep' = EncryptDataPage(ep)
  /\ UNCHANGED <<props, cw, pw, out, fin, md, h, file, rd, rg, mb, st>>

PageEncryptionNext == EpWriteDictionaryPage \/ EpWriteDataPage

PageEncryptionSpec == PageEncryptionInit /\ [][PageEncryptionNext]_vars

\* C34: the payload of the k-th data page is encrypted under the DataPage AAD
\* and its header under the DataPageHeader AAD of (row group ordinal, column
\* ordinal, k); the dictionary page and its header have the AADs of their own
\* modules and leave the page ordinal alone; so no two encrypted modules of a
\* chunk have the same AAD, however many data pages the chunk has.  Here: the
\* modules of a later data page never have the AAD of a module of the first.
C34_NoAadTwice ==
  (ep.exists /\ ep.num_data_pages > 1) => ep.last \cap ep.first = {}

\* ---------------------------------------------------------------------------
\* Claims about the AAD prefix of the reader
\* ---------------------------------------------------------------------------

\* an intact encrypted file is opened with decryption properties, so that
\* ParseMetaData comes to HandleAadPrefix
AadPrefixHandled ==
  /\ Opened /\ rd.status # "parsing"
  /\ file.written /\ file.altered = ""
  /\ file.file_encryption_properties # NULLPTR
  /\ rd.file_decryption_properties # NULLPTR

\* the four cases in which HandleAadPrefix throws, each with its message
AadPrefixRejection ==
  LET algo == file.file_encryption_properties.algorithm
      aad_prefix_in_properties == rd.file_decryption_properties.aad_prefix
      verifier == rd.file_decryption_properties.aad_prefix_verifier
  IN  IF algo.supply_aad_prefix /\ aad_prefix_in_properties = ""
      THEN "AAD prefix used for file encryption, but not stored in file and not supplied in decryption properties"
      ELSE IF algo.aad_prefix # "" /\ aad_prefix_in_properties # "" /\ aad_prefix_in_properties # algo.aad_prefix
      THEN "AAD Prefix in file and in properties is not the same"
      ELSE IF algo.aad_prefix = "" /\ ~algo.supply_aad_prefix /\ aad_prefix_in_properties # ""
      THEN "AAD Prefix set in decryption properties, but was not used for file encryption"
      ELSE IF algo.aad_prefix = "" /\ verifier # NULLPTR
      THEN "AAD Prefix Verifier is set, but AAD Prefix not found in file"
      ELSE ""

IsDictEncoder(encoder) == encoder.kind = "DICTIONARY"

\* what holds of the encoder in every state of a column writer
C36_EncoderState ==
  /\ IsDictEncoder(cw.current_encoder) <=> (cw.has_dictionary /\ ~cw.fallback)
  /\ h.fallback_calls <= 1
  /\ (h.fallback_calls > 0 /\ NoWriteAfterClose) =>
       \* every level processed before the fallback is in a dictionary-encoded
       \* page: none was buffered when the encoder was replaced
       /\ SumNumValues(SelectSeq(PagesOf(out), IsDictionaryEncoded)) = h.fallback_levels
       /\ h.dictionary_page_calls = 1
       /\ Len(DictionaryPagesOf(out)) = 1

\* the encoder is replaced only at the fallback
EncoderReplacedAtFallback ==
  (cw'.current_encoder.kind # cw.current_encoder.kind) =>
    /\ IsDictEncoder(cw.current_encoder) /\ ~IsDictEncoder(cw'.current_encoder)
    /\ ~cw.fallback /\ cw'.fallback
    /\ h'.fallback_calls = h.fallback_calls + 1

\* after the fallback no dictionary page is written, by a write or by Close
NoDictionaryPageAfterFallback ==
  cw.fallback =>
    /\ h'.dictionary_page_calls = h.dictionary_page_calls
    /\ Len(DictionaryPagesOf(out')) = Len(DictionaryPagesOf(out))

\* C36: in every state of a column writer the current value encoder is the
\* dictionary encoder if and only if has_dictionary is true and fallback is
\* false; the encoder is replaced only at the fallback and only when no level
\* or value is buffered; after the fallback the dictionary encoder is not used
\* again and no dictionary page is written, Close included.
C36_EncoderReplacedAtFallback ==
  /\ []C36_EncoderState
  /\ [][EncoderReplacedAtFallback]_vars
  /\ [][NoDictionaryPageAfterFallback]_vars

\* a chunk closed after a fallback, with PLAIN pages behind its only dictionary
\* page
C36_Witness ==
  /\ cw.closed /\ NoWriteAfterClose /\ ~h.failed
  /\ cw.has_dictionary /\ cw.fallback
  /\ ~IsDictEncoder(cw.current_encoder)
  /\ h.fallback_levels > 0
  /\ Len(DictionaryPagesOf(out)) = 1
  /\ Len(SelectSeq(PagesOf(out), IsPlainEncoded)) >= 1

\* ---------------------------------------------------------------------------
\* Claims about the encryption algorithm of a file
\* ---------------------------------------------------------------------------

\* the reader of an intact encrypted file has built its file decryptor
FileDecryptorBuilt ==
  /\ AadPrefixHandled
  /\ rd.file_decryptor # NULLPTR

\* C37: the algorithm with which the reader builds its file decryptor is the
\* algorithm of the writer's file encryption properties, for AES_GCM_V1 and for
\* AES_GCM_CTR_V1, with an encrypted footer (algorithm of the FileCryptoMetaData)
\* and with a plaintext footer (encryption_algorithm of the FileMetaData).
C37_ReaderUsesWriterAlgorithm ==
  FileDecryptorBuilt => rd.file_decryptor.algorithm = file.file_encryption_properties.algorithm.algorithm

\* with an encrypted footer the reader has the writer's algorithm
C37_EncryptedFooterAlgorithm ==
  (FileDecryptorBuilt /\ file.file_encryption_properties.encrypted_footer)
  => rd.file_decryptor.algorithm = file.file_encryption_properties.algorithm.algorithm

\* ---------------------------------------------------------------------------
\* Claims about the bytes a column writer reports
\* ---------------------------------------------------------------------------

\* the header and the payload bytes of the pages the writer gave its PageWriter
PageBytesWritten == SumHeaderSize(PagesOf(out)) + SumCompressedPageSize(PagesOf(out))

\* the bytes of the column metadata that Close put behind the pages
IsColumnMetaData(item) == ~IsPage(item)
MetaDataBytesInSink == SumCompressedPageSize(SelectSeq(FileSink.items, IsColumnMetaData))

\* what holds of the byte counters in every state of a column writer
C38_BytesWritten ==
  /\ cw.total_bytes_written = pw.total_compressed_size
  /\ cw.total_bytes_written = PageBytesWritten
  /\ (h.close_calls > 0 /\ ~h.failed /\ NoWriteAfterClose) =>
       /\ h.first_close_ret = md.total_compressed_size
       /\ h.last_op = "Close" => h.last_ret = md.total_compressed_size
       /\ MetaDataBytesInSink > 0
       /\ FileSink.pos - props.sink_start = h.first_close_ret + MetaDataBytesInSink

\* C38: in every state of a column writer total_bytes_written is the running
\* total_compressed_size of its PageWriter, the header and payload bytes of the
\* pages written so far; so Close returns the total_compressed_size recorded in
\* the chunk metadata, without the bytes of the column metadata that Close
\* appends to the sink.
C38_CloseReturnsCompressedSize == []C38_BytesWritten

\* a closed chunk of two pages or more
C38_Witness ==
  /\ cw.closed /\ NoWriteAfterClose /\ ~h.failed
  /\ h.last_op = "Close"
  /\ Len(PagesOf(out)) >= 2
  /\ h.last_ret = md.total_compressed_size
  /\ h.last_ret > 0

\* the results of Close of the columns of a row group (the writers are at the
\* return of Close)
RECURSIVE SumCloseResults(_, _)
SumCloseResults(writers, columns) ==
  IF columns = {} THEN 0
  ELSE LET i == CHOOSE c \in columns : TRUE
       IN writers[i].ret + SumCloseResults(writers, columns \ {i})

\* the compressed sizes in the metadata of the columns of a row group
RECURSIVE SumChunkCompressedSizes(_, _)
SumChunkCompressedSizes(writers, columns) ==
  IF columns = {} THEN 0
  ELSE LET i == CHOOSE c \in columns : TRUE
       IN writers[i].md.total_compressed_size + SumChunkCompressedSizes(writers, columns \ {i})

\* the columns of the row group are closed
AllColumnsClosed == rg.exists /\ \A i \in Columns : rg.writers[i].cw.closed /\ ~rg.writers[i].h.failed

\* the second half of C38, for a row group: the results of Close of its
\* columns add up to the compressed sizes of its chunks
C38_RowGroupSums ==
  AllColumnsClosed =>
    /\ SumCloseResults(rg.writers, Columns) = SumChunkCompressedSizes(rg.writers, Columns)
    /\ \A i \in Columns : rg.writers[i].ret = rg.writers[i].md.total_compressed_size

\* ---------------------------------------------------------------------------
\* Claims about the dictionary page offset of a chunk
\* ---------------------------------------------------------------------------

\* ColumnChunkMetaData::has_dictionary_page of the chunk the writer finished
has_dictionary_page == md.isset_dictionary_page_offset

\* the writer wrote a dictionary page for the chunk
WroteDictionaryPage == Len(DictionaryPagesOf(FileSink)) > 0

\* C39: for every chunk this writer wrote, has_dictionary_page() of the chunk's
\* metadata (dictionary_page_offset is set) is true if and only if the writer
\* wrote a dictionary page for the chunk, with the streaming and with the
\* buffered PageWriter.
C39_HasDictionaryPage ==
  (ChunkClosed /\ ~h.failed) => (has_dictionary_page <=> WroteDictionaryPage)

\* the same for the streaming PageWriter alone
C39_HasDictionaryPageStreaming ==
  (ChunkClosed /\ ~h.failed /\ ~props.buffered) => (has_dictionary_page <=> WroteDictionaryPage)

====
